---- MODULE Spec2Model ----
(***************************************************************************)
(* Model of the cache-invalidation client core ("Ticl"):                   *)
(*   - OperationScheduler   (v2/operation-scheduler.cc)                    *)
(*   - ProtocolHandler      (v2/protocol-handler.cc)                       *)
(*                                                                         *)
(* A CHECK of the source is fatal: the action that trips it records the    *)
(* failed condition in `halted` and no further action is enabled.          *)
(*                                                                         *)
(* OperationScheduler::SetOperation (line 26) CHECKs that the operation IS *)
(* found in operations_, so a first registration always halts and the      *)
(* source has no other way to put an entry into operations_.  The          *)
(* specifications below therefore draw the scheduler's table from the      *)
(* bounded set of tables SetOperation's assignment (line 33) is written to *)
(* produce - the empty table of a fresh scheduler included - so that the   *)
(* code behind that CHECK can be examined at all.                          *)
(***************************************************************************)
EXTENDS Integers, Sequences, FiniteSets, Bags, TLC

\* ---------------------------------------------------------------- bounds
MaxTime == 2          \* the clock runs over 0..MaxTime
MaxDelay == 2         \* delays handed to the scheduler are in 0..MaxDelay
MaxQueue == 2         \* closures the internal scheduler holds at a time

\* ------------------------------------------------------------- vocabulary
NULL == "NULL"
Ops == {"op1", "op2"}                 \* closures handed to a scheduler
Closures == Ops \cup {NULL}
Delays == 0 .. MaxDelay               \* TimeDelta values (0 is not positive)

VARIABLES
  now,          \* scheduler_->GetCurrentTime() / GetCurrentTimeMs()
  operations_,  \* OperationScheduler::operations_ : Closure* -> OperationScheduleInfo
  scheduled,    \* closures held by the internal scheduler, in posting order
  halted,       \* "" or the CHECK that failed
  handler,      \* the entry point that ran last, with its arguments
  client_token,                 \* listener_->GetClientToken()
  message_id_,                  \* ProtocolHandler::message_id_
  last_known_server_time_ms_,   \* ProtocolHandler::last_known_server_time_ms_
  next_message_send_time_ms_,   \* ProtocolHandler::next_message_send_time_ms_
  pending_registrations_,       \* ObjectIdP -> RegistrationP::OpType
  acked_invalidations_,         \* set of InvalidationP
  registration_subtrees_,       \* set of RegistrationSubtree
  statistics_,      \* the Record* calls the last entry point made, in order
  listener_calls,   \* the listener callbacks the last entry point made
  network_,         \* the messages the last entry point handed to SendMessage
  quiet_log,        \* history: ends of the quiet periods the server set
  desired_registrations_,       \* RegistrationManager's store, as a set
  last_known_server_summary_,   \* RegistrationManager::last_known_server_summary_
  success_status,   \* the vector HandleRegistrationStatus was handed, after it
  perform_log,      \* history: the desired set at construction or at the last
                    \* reconciliation, and the PerformOperations calls since
  delegate_,        \* SafeStorage call -> what the delegate did with its callback
  done,             \* SafeStorage call -> the runs and deletions of its completion
  recording,        \* the histories below that are kept (never changes)
  fired,            \* history: operation -> the time of its last firing
  batched_sent,     \* history: when a message with batched content was last
                    \* handed to the network, -1 before the first
  submitted         \* history: the arguments of the batching entry points
                    \* called since the last assembly, in call order, kept
                    \* after the next assembly (drained) until the next call

osVars == <<now, operations_, scheduled, halted, handler>>
phVars == <<client_token, message_id_, last_known_server_time_ms_,
            next_message_send_time_ms_, pending_registrations_,
            acked_invalidations_, registration_subtrees_, statistics_,
            listener_calls, network_, quiet_log>>
rmVars == <<desired_registrations_, last_known_server_summary_,
            success_status, perform_log>>
ssVars == <<delegate_, done>>
histVars == <<recording, fired, batched_sent, submitted>>
vars == <<osVars, phVars, rmVars, ssVars, histVars>>

\* OperationScheduleInfo(delay): has_been_scheduled starts false.
OperationScheduleInfo(delay) == [delay |-> delay, has_been_scheduled |-> FALSE]

\* operations_.find(operation) != operations_.end()
Found(operation) == operation \in DOMAIN operations_

\* operations_[operation] = info  (hash_map::operator[] inserts or assigns)
MapPut(map, key, value) ==
  [k \in (DOMAIN map) \cup {key} |-> IF k = key THEN value ELSE map[k]]

\* A closure posted with scheduler_->Schedule(delay, closure) at time `now`.
PostedTask(kind, op, delay) ==
  [kind |-> kind, op |-> op, delay |-> delay, posted |-> now]

Due(task) == task.posted + task.delay

\* Runnable without the deadline: the scheduler runs a closure at once.
Runnable_NoDeadline(i) ==
  /\ i \in 1 .. Len(scheduled)
  /\ \A j \in 1 .. Len(scheduled) : j >= i

\* The internal scheduler runs the closures whose deadline has passed,
\* earliest deadline first and in posting order among equal deadlines.
Runnable(i) ==
  /\ i \in 1 .. Len(scheduled)
  /\ Due(scheduled[i]) <= now
  /\ \A j \in 1 .. Len(scheduled) :
        /\ ~(Due(scheduled[j]) < Due(scheduled[i]))
        /\ (Due(scheduled[j]) = Due(scheduled[i]) => j >= i)

RemoveAt(seq, i) == SubSeq(seq, 1, i - 1) \o SubSeq(seq, i + 1, Len(seq))

\* Wrappers (RunAndClearScheduled closures) of `op` held by the scheduler.
Wrappers(op) ==
  {i \in 1 .. Len(scheduled) :
      IF scheduled[i].kind = "wrapper" THEN scheduled[i].op = op ELSE FALSE}

Halt(check, name, operation) ==
  /\ halted' = check
  /\ handler' = [name |-> name, op |-> operation]
  /\ UNCHANGED <<now, operations_, scheduled>>
  /\ UNCHANGED <<phVars, rmVars, ssVars, histVars>>

\* ------------------------------------------------------ OperationScheduler

\* OperationScheduler::SetOperation(delay, operation)
SetOperation(delay, operation) ==
  /\ halted = ""
  /\ IF ~Found(operation)
       THEN Halt("operation already set", "SetOperation", operation)
     ELSE IF ~(delay > 0)
       THEN Halt("delay_ms must be positive", "SetOperation", operation)
     ELSE IF ~(operation # NULL)
       THEN Halt("operation != NULL", "SetOperation", operation)
     ELSE /\ operations_' =
               MapPut(operations_, operation, OperationScheduleInfo(delay))
          /\ handler' = [name |-> "SetOperation", op |-> operation]
          /\ UNCHANGED <<now, scheduled, halted>>
          /\ UNCHANGED <<phVars, rmVars, ssVars, histVars>>

\* ChangeDelayForTest that stores a new OperationScheduleInfo, as
\* SetOperation does.
ChangeDelayForTest_NewInfo(operation, delay) ==
  /\ halted = ""
  /\ IF ~Found(operation)
       THEN Halt("it != operations_.end()", "ChangeDelayForTest",
                 operation)
       ELSE /\ operations_' =
                 MapPut(operations_, operation, OperationScheduleInfo(delay))
            /\ handler' = [name |-> "ChangeDelayForTest", op |-> operation,
                           delay |-> delay]
            /\ UNCHANGED <<now, scheduled, halted>>
            /\ UNCHANGED <<phVars, rmVars, ssVars, histVars>>

\* OperationScheduler::ChangeDelayForTest(operation, delay)
ChangeDelayForTest(operation, delay) ==
  /\ halted = ""
  /\ IF ~Found(operation)
       THEN Halt("it != operations_.end()", "ChangeDelayForTest",
                 operation)
       ELSE /\ operations_' =
                 [operations_ EXCEPT ![operation].delay = delay]
            /\ handler' = [name |-> "ChangeDelayForTest", op |-> operation,
                           delay |-> delay]
            /\ UNCHANGED <<now, scheduled, halted>>
            /\ UNCHANGED <<phVars, rmVars, ssVars, histVars>>

\* SchedulePost without the has_been_scheduled test of line 54.
SchedulePost_NoFlagTest(ops, queue, operation) ==
  [ops   |-> [ops EXCEPT ![operation].has_been_scheduled = TRUE],
   queue |-> Append(queue,
               PostedTask("wrapper", operation, ops[operation].delay))]

\* The body of OperationScheduler::Schedule past its CHECK, as a function of
\* the table and the scheduler's queue.
SchedulePost(ops, queue, operation) ==
  IF ~ops[operation].has_been_scheduled
    THEN [ops   |-> [ops EXCEPT ![operation].has_been_scheduled = TRUE],
          queue |-> Append(queue,
                      PostedTask("wrapper", operation, ops[operation].delay))]
    ELSE [ops |-> ops, queue |-> queue]

\* OperationScheduler::Schedule(operation)
Schedule(operation) ==
  /\ halted = ""
  /\ IF ~Found(operation)
       THEN Halt("it != operations_.end()", "Schedule", operation)
       ELSE /\ now + operations_[operation].delay <= MaxTime
            /\ LET r == SchedulePost(operations_, scheduled, operation)
               IN /\ Len(r.queue) <= MaxQueue
                  /\ operations_' = r.ops
                  /\ scheduled' = r.queue
            /\ handler' = [name |-> "Schedule", op |-> operation]
            /\ UNCHANGED <<now, halted>>
            /\ UNCHANGED <<phVars, rmVars, ssVars, histVars>>

\* RunAndClearScheduled that clears has_been_scheduled before it runs the
\* closure.
RunAndClearScheduled_ClearFirst(i, reenter) ==
  /\ halted = ""
  /\ Runnable(i)
  /\ scheduled[i].kind = "wrapper"
  /\ LET op == scheduled[i].op
         q0 == RemoveAt(scheduled, i)
         cleared == [operations_ EXCEPT ![op].has_been_scheduled = FALSE]
         r  == IF reenter THEN SchedulePost(cleared, q0, op)
                          ELSE [ops |-> cleared, queue |-> q0]
     IN /\ operations_' = r.ops
        /\ scheduled' = r.queue
        /\ handler' = [name |-> "RunAndClearScheduled", op |-> op,
                       again |-> op \in DOMAIN fired,
                       reentered |-> reenter]
        /\ fired' = IF "fired" \in recording THEN MapPut(fired, op, now)
                                           ELSE fired
  /\ UNCHANGED <<now, halted, recording, batched_sent, submitted>>
  /\ UNCHANGED <<phVars, rmVars, ssVars>>

\* OperationScheduler::RunAndClearScheduled(closure, info), run by the
\* internal scheduler.  closure->Run() is the caller's code: `reenter` says
\* whether it calls Schedule(closure) itself before it returns.
RunAndClearScheduled(i, reenter) ==
  /\ halted = ""
  /\ Runnable(i)
  /\ scheduled[i].kind = "wrapper"
  /\ LET op == scheduled[i].op
         q0 == RemoveAt(scheduled, i)
         r  == IF reenter THEN SchedulePost(operations_, q0, op)
                          ELSE [ops |-> operations_, queue |-> q0]
     IN /\ operations_' = [r.ops EXCEPT ![op].has_been_scheduled = FALSE]
        /\ scheduled' = r.queue
        /\ handler' = [name |-> "RunAndClearScheduled", op |-> op,
                       again |-> op \in DOMAIN fired,
                       reentered |-> reenter]
        /\ fired' = IF "fired" \in recording THEN MapPut(fired, op, now)
                                           ELSE fired
  /\ UNCHANGED <<now, halted, recording, batched_sent, submitted>>
  /\ UNCHANGED <<phVars, rmVars, ssVars>>

\* The clock advances.
Tick ==
  /\ halted = ""
  /\ now < MaxTime
  /\ now' = now + 1
  /\ UNCHANGED <<operations_, scheduled, halted, handler>>
  /\ UNCHANGED <<phVars, rmVars, ssVars, histVars>>

\* ------------------------------------------- RegistrationManager: its state

\* The object ids the application registers and the server reports on.
RmObjectIds == {"x", "y"}
RmIdOrder == <<"x", "y">>

\* SimpleRegistrationStore::GetDigest(): the digest function applied to the
\* elements in their canonical order; a function of the set alone.
RECURSIVE DigestBytes(_, _)
DigestBytes(set, k) ==
  IF k > Len(RmIdOrder) THEN ""
  ELSE (IF RmIdOrder[k] \in set THEN RmIdOrder[k] ELSE "")
         \o DigestBytes(set, k + 1)
GetDigest(set) == "digest(" \o DigestBytes(set, 1) \o ")"

\* RegistrationManager::GetClientSummary
GetClientSummary ==
  [num_registrations |-> Cardinality(desired_registrations_),
   registration_digest |-> GetDigest(desired_registrations_)]

\* RegistrationManager's constructor: an empty store, and the summary of it
\* as last_known_server_summary_ (line 36).
InitRM ==
  /\ desired_registrations_ = {}
  /\ last_known_server_summary_ = GetClientSummary
  /\ success_status = <<>>
  /\ perform_log = [base |-> {}, ops |-> <<>>]

\* ---------------------------------------------------- SafeStorage: its state

MaxCalls == 2         \* SafeStorage calls made

\* No SafeStorage call has been made.
InitSS ==
  /\ delegate_ = <<>>
  /\ done = <<>>

NoSubmissions == [registrations |-> <<>>, acks |-> <<>>, subtrees |-> <<>>,
                  drained |-> FALSE]

\* The calls made since the last assembly.
SinceAssembly == IF submitted.drained THEN NoSubmissions ELSE submitted

\* Nothing has fired and nothing has been sent.  The histories are kept
\* only under the specifications whose properties read them.
NoHistory ==
  /\ fired = <<>>
  /\ batched_sent = -1
  /\ submitted = NoSubmissions

InitHist ==
  /\ recording = {}
  /\ NoHistory

\* ----------------------------------------------------------- specifications

\* Tables SetOperation's assignment produces: positive delay, not scheduled.
Tables ==
  UNION {[D -> {OperationScheduleInfo(d) : d \in 1 .. MaxDelay}] :
           D \in SUBSET Ops}

\* The members ProtocolHandler's constructor initialises (lines 42-54) and
\* a listener that holds no token yet.
InitPH ==
  /\ client_token = ""
  /\ message_id_ = 1
  /\ last_known_server_time_ms_ = 0
  /\ next_message_send_time_ms_ = 0
  /\ pending_registrations_ = <<>>
  /\ acked_invalidations_ = {}
  /\ registration_subtrees_ = {}
  /\ statistics_ = <<>>
  /\ listener_calls = <<>>
  /\ network_ = <<>>
  /\ quiet_log = [last |-> 0, longest |-> 0]

InitOS ==
  /\ now = 0
  /\ operations_ \in Tables
  /\ scheduled = <<>>
  /\ halted = ""
  /\ handler = [name |-> "init", op |-> NULL]
  /\ InitPH
  /\ InitRM
  /\ InitSS
  /\ InitHist

\* Every call a client of the OperationScheduler can make.
NextOS ==
  \/ \E d \in Delays, op \in Closures : SetOperation(d, op)
  \/ \E d \in Delays, op \in Closures : ChangeDelayForTest(op, d)
  \/ \E op \in Closures : Schedule(op)
  \/ \E i \in 1 .. Len(scheduled), b \in BOOLEAN : RunAndClearScheduled(i, b)
  \/ Tick

SpecOS == InitOS /\ [][NextOS]_vars

\* The scheduler once its operations are set: Schedule, ChangeDelayForTest
\* and the internal scheduler's firings.
FireWrapper == \E i \in 1 .. Len(scheduled), b \in BOOLEAN :
                  RunAndClearScheduled(i, b)

NextSched ==
  \/ \E d \in Delays, op \in Closures : ChangeDelayForTest(op, d)
  \/ \E op \in Closures : Schedule(op)
  \/ FireWrapper
  \/ Tick

\* The internal scheduler is a running worker: time passes and a closure
\* whose deadline has passed is run.
SpecSched ==
  InitOS /\ [][NextSched]_vars /\ WF_vars(Tick) /\ WF_vars(FireWrapper)

\* ------------------------------------------------------------------ claims

\* C1 (as claimed): SetOperation of a non-null operation that is not yet
\* registered, with a positive delay, trips no CHECK and leaves the entry
\* (delay, has_been_scheduled = false) in operations_.
C1_RegisterAccepted ==
  [][\A d \in 1 .. MaxDelay, op \in Ops :
       (~Found(op) /\ SetOperation(d, op))
         => /\ halted' = ""
            /\ op \in DOMAIN operations_'
            /\ operations_'[op] = OperationScheduleInfo(d)]_vars

C3_AtMostOneWrapper ==
  \A op \in DOMAIN operations_ :
     /\ Cardinality(Wrappers(op)) <= 1
     /\ operations_[op].has_been_scheduled <=> (Wrappers(op) # {})

\* C3 witness: two operations have a wrapper pending, one of them posted
\* after an earlier firing and followed by a ChangeDelayForTest.
C3_Witness ==
  /\ halted = ""
  /\ \A op \in Ops : Found(op) /\ Wrappers(op) # {}
  /\ \E i \in 1 .. Len(scheduled) :
        /\ scheduled[i].posted > 0
        /\ scheduled[i].delay # operations_[scheduled[i].op].delay

\* C4: Schedule calls made while a wrapper of the operation is pending post
\* nothing; a Schedule call made when none is pending posts exactly one
\* wrapper, with the stored delay; a wrapper runs not before its delay has
\* passed since that call and leaves the operation unscheduled; and every
\* pending wrapper is eventually run unless a CHECK stops the process.
C4_RunsExactlyOnce ==
  /\ [][\A op \in Ops :
          /\ (Found(op) /\ Wrappers(op) # {} /\ Schedule(op))
                => scheduled' = scheduled
          /\ (Found(op) /\ Wrappers(op) = {} /\ Schedule(op))
                => /\ Len(scheduled') = Len(scheduled) + 1
                   /\ scheduled'[Len(scheduled')] =
                        [kind |-> "wrapper", op |-> op,
                         delay |-> operations_[op].delay, posted |-> now]
          /\ (handler'.name = "RunAndClearScheduled" /\ handler'.op = op
               /\ scheduled' # scheduled)
                => /\ \E i \in Wrappers(op) :
                         /\ now >= scheduled[i].posted + scheduled[i].delay
                         /\ scheduled' = RemoveAt(scheduled, i)
                   /\ ~operations_'[op].has_been_scheduled]_vars
  /\ \A op \in Ops :
        (halted = "" /\ Found(op) /\ Wrappers(op) # {})
          ~> (\/ /\ handler.name = "RunAndClearScheduled"
                 /\ handler.op = op
                 /\ Wrappers(op) = {}
              \/ halted # "")

\* C4 witness: an operation that has run once is scheduled again.
C4_Witness ==
  /\ halted = ""
  /\ handler.name = "Schedule"
  /\ \E i \in Wrappers(handler.op) : scheduled[i].posted > 0

\* ---------------------------------------------------------- ProtocolHandler

\* Constants::kProtocolMajorVersion / kProtocolMinorVersion
kProtocolMajorVersion == 3
kProtocolMinorVersion == 2

batching_delay == 1       \* config.batching_delay
MaxServerTime == 1        \* header server_time_ms is in 0..MaxServerTime
MaxQuietDelay == 2        \* next_message_delay_ms is in 1..MaxQuietDelay
MaxMessageId == 5         \* messages are assembled while message_id_ is below

batching_task_ == "batching_task_"
Tokens == {"A", "B"}                      \* non-empty client tokens
ObjectIds == {"o1"}
OpTypes == {"REGISTER", "UNREGISTER"}
Invalidations == {"i1"}
Subtrees == {"s1"}

\* The sub-messages dispatched after the token checks, in dispatch order.
SubOrder == <<"INVALIDATION", "REGISTRATION_STATUS",
              "REGISTRATION_SYNC_REQUEST", "INFO_REQUEST">>
SubKinds == {SubOrder[k] : k \in 1 .. Len(SubOrder)}

Callback(kind) ==
  CASE kind = "INVALIDATION" -> "HandleInvalidations"
    [] kind = "REGISTRATION_STATUS" -> "HandleRegistrationStatus"
    [] kind = "REGISTRATION_SYNC_REQUEST" -> "HandleRegistrationSyncRequest"
    [] kind = "INFO_REQUEST" -> "HandleInfoMessage"

\* A ServerToClientMessage as HandleIncomingMessage reads it.  parse is
\* "unparseable" (IsInitialized fails), "invalid" (the validator rejects it)
\* or "valid".
ServerToClientMessage(parse, major, token, time, cc, tc, subs) ==
  [parse |-> parse, major_version |-> major, client_token |-> token,
   server_time_ms |-> time, config_change_message |-> cc,
   token_control_message |-> tc, subs |-> subs]

NoConfigChange == [has |-> FALSE, has_next_message_delay_ms |-> FALSE,
                   next_message_delay_ms |-> 0]
ConfigChanges ==
  {NoConfigChange,
   [has |-> TRUE, has_next_message_delay_ms |-> FALSE,
    next_message_delay_ms |-> 0]}
  \cup {[has |-> TRUE, has_next_message_delay_ms |-> TRUE,
         next_message_delay_ms |-> d] : d \in 1 .. MaxQuietDelay}

NoTokenControl == [has |-> FALSE, new_token |-> ""]
TokenControls ==
  {NoTokenControl} \cup {[has |-> TRUE, new_token |-> t] : t \in {""} \cup Tokens}

\* Messages that do not get past parsing or validation; an invalid one
\* still has a header, whose major version may be any.
BrokenMessages ==
  {ServerToClientMessage("unparseable", kProtocolMajorVersion, "A", 0,
                         NoConfigChange, NoTokenControl, {})}
  \cup {ServerToClientMessage("invalid", v, "A", 0, NoConfigChange,
                              NoTokenControl, SubKinds) :
          v \in {kProtocolMajorVersion, kProtocolMajorVersion + 1}}

\* Valid envelopes of the right version without a config change: the ones
\* whose every field HandleIncomingMessage reads, in every combination.
PlainMessages ==
  {ServerToClientMessage("valid", kProtocolMajorVersion, t, st,
                         NoConfigChange, tc, subs) :
     t \in Tokens, st \in 0 .. MaxServerTime,
     tc \in TokenControls, subs \in SUBSET SubKinds}

\* Valid envelopes of either version with any config change; the fields the
\* handler does not get to read behind a version mismatch or a config change
\* are each absent or fully present.
EarlyReturnMessages ==
  {ServerToClientMessage("valid", v, t, st, cc, tc, subs) :
     v \in {kProtocolMajorVersion, kProtocolMajorVersion + 1},
     t \in Tokens, st \in {0, MaxServerTime}, cc \in ConfigChanges,
     tc \in {NoTokenControl, [has |-> TRUE, new_token |-> "B"]},
     subs \in {{}, SubKinds}}

\* The messages the transport delivers.
Messages == BrokenMessages \cup PlainMessages \cup EarlyReturnMessages

\* The messages delivered where the outbound operations run as well: the
\* broken ones, and valid ones that carry either a config change, or a token
\* control message, or all of the other sub-messages.
CoreMessages ==
  {m \in Messages :
     \/ m.parse # "valid"
     \/ /\ m.major_version = kProtocolMajorVersion
        /\ m.server_time_ms = MaxServerTime
        /\ \/ /\ m.config_change_message.has
              /\ ~m.token_control_message.has /\ m.subs = SubKinds
           \/ /\ ~m.config_change_message.has
              /\ m.token_control_message.has /\ m.subs = {}
              /\ m.token_control_message.new_token \in {"", "A"}
     \/ /\ m.major_version # kProtocolMajorVersion
        /\ m.server_time_ms = 0 /\ m.client_token = "A"
        /\ ~m.config_change_message.has /\ ~m.token_control_message.has
        /\ m.subs = SubKinds
     \/ /\ m.major_version = kProtocolMajorVersion
        /\ ~m.config_change_message.has /\ ~m.token_control_message.has
        /\ m.subs = SubKinds /\ m.client_token = "A"}

\* StringPrintf("%d", n) for n >= 0
Digit(d) == CASE d = 0 -> "0" [] d = 1 -> "1" [] d = 2 -> "2" [] d = 3 -> "3"
              [] d = 4 -> "4" [] d = 5 -> "5" [] d = 6 -> "6" [] d = 7 -> "7"
              [] d = 8 -> "8" [] d = 9 -> "9"

RECURSIVE StringPrintf_d(_)
StringPrintf_d(n) ==
  IF n < 10 THEN Digit(n) ELSE StringPrintf_d(n \div 10) \o Digit(n % 10)

\* CheckServerToken that rejects whenever the tokens differ, also for a
\* client without a token.
CheckServerToken_Strict(server_token) ==
  IF client_token # server_token
    THEN [ok |-> FALSE, stats |-> <<"ERROR_TOKEN_MISMATCH">>]
    ELSE [ok |-> TRUE, stats |-> <<>>]

\* CheckServerToken that accepts every header token.
CheckServerToken_Lenient(server_token) == [ok |-> TRUE, stats |-> <<>>]

\* ProtocolHandler::CheckServerToken: [result, statistics recorded]
CheckServerToken(server_token) ==
  IF client_token = "" THEN [ok |-> TRUE, stats |-> <<>>]
  ELSE IF client_token # server_token
    THEN [ok |-> FALSE, stats |-> <<"ERROR_TOKEN_MISMATCH">>]
  ELSE [ok |-> TRUE, stats |-> <<>>]

\* The sub-messages of `subs` with the info request handled first.
Dispatched_InfoFirst(subs) ==
  SelectSeq(<<"INFO_REQUEST", "INVALIDATION", "REGISTRATION_STATUS",
              "REGISTRATION_SYNC_REQUEST">>, LAMBDA k : k \in subs)

\* The sub-messages of `subs` in dispatch order.
Dispatched(subs) == SelectSeq(SubOrder, LAMBDA k : k \in subs)

\* The statistics recorded and the callbacks made for dispatched sub-messages.
ReceivedStat(kind) == "RECEIVED_" \o kind
ReceivedStats(kinds) == [k \in 1 .. Len(kinds) |-> ReceivedStat(kinds[k])]
Callbacks(kinds) == [k \in 1 .. Len(kinds) |-> Callback(kinds[k])]

\* The version check left out.
VersionMismatch_Off(m) == FALSE

\* The version check of lines 107-108.
VersionMismatch(m) == m.major_version # kProtocolMajorVersion

\* A drop that forgets the server time known so far.
Dropped_ForgetsServerTime(stats) ==
  [token |-> client_token, server_time |-> 0,
   send_time |-> next_message_send_time_ms_, stats |-> stats,
   calls |-> <<>>, quiet |-> quiet_log]

\* ProtocolHandler::HandleIncomingMessage(m) as a function of the state: the
\* values it leaves and the calls it makes.  `accept` is the listener's
\* answer to HandleTokenChanged: it takes over new_token or keeps its token.
Dropped(stats) ==
  [token |-> client_token, server_time |-> last_known_server_time_ms_,
   send_time |-> next_message_send_time_ms_, stats |-> stats,
   calls |-> <<>>, quiet |-> quiet_log]

Max(a, b) == IF a > b THEN a ELSE b

\* The config change looked at only once the header token has been accepted.
IsConfigChange_AfterToken(m) ==
  m.config_change_message.has /\ CheckServerToken(m.client_token).ok

\* message.has_config_change_message() at line 119, before the token check.
IsConfigChange(m) == m.config_change_message.has

\* The header's server time taken over whatever time is known.
ServerTime_Overwrite(m) == m.server_time_ms

\* Lines 135-137: the known server time moves forward only.
ServerTime(m) ==
  IF m.server_time_ms > last_known_server_time_ms_
    THEN m.server_time_ms ELSE last_known_server_time_ms_

\* The token re-check after the upcall left out.
NoTokenAfterUpcall_Off(token) == FALSE

\* listener_->GetClientToken().empty() at line 156, after the upcall.
NoTokenAfterUpcall(token) == token = ""

HandleIncoming(m, accept) ==
  IF m.parse = "unparseable" THEN Dropped(<<>>)
  ELSE IF m.parse = "invalid"
    THEN Dropped(<<"ERROR_INCOMING_MESSAGE_FAILURE">>)
  ELSE IF VersionMismatch(m)
    THEN Dropped(<<"RECEIVED_TOTAL", "ERROR_PROTOCOL_VERSION_FAILURE">>)
  ELSE IF IsConfigChange(m)
    THEN IF m.config_change_message.has_next_message_delay_ms
           THEN LET t == now + m.config_change_message.next_message_delay_ms
                IN [Dropped(<<"RECEIVED_TOTAL">>) EXCEPT
                      !.send_time = t,
                      !.quiet = [last |-> t,
                                 longest |-> Max(t, quiet_log.longest)]]
           ELSE Dropped(<<"RECEIVED_TOTAL">>)
  ELSE IF ~CheckServerToken(m.client_token).ok
    THEN Dropped(<<"RECEIVED_TOTAL">> \o CheckServerToken(m.client_token).stats)
  ELSE
    LET time == ServerTime(m)
        tc == m.token_control_message
        token == IF tc.has /\ accept THEN tc.new_token ELSE client_token
        tcStats == IF tc.has THEN <<"RECEIVED_TOKEN_CONTROL">> ELSE <<>>
        tcCalls == IF tc.has THEN <<"HandleTokenChanged">> ELSE <<>>
        subs == IF NoTokenAfterUpcall(token) THEN <<>>
                                             ELSE Dispatched(m.subs)
    IN [token |-> token, server_time |-> time,
        send_time |-> next_message_send_time_ms_,
        stats |-> <<"RECEIVED_TOTAL">> \o tcStats \o ReceivedStats(subs),
        calls |-> tcCalls \o Callbacks(subs),
        quiet |-> quiet_log]

\* The threads a call can be made on.
Threads == {"network", "internal scheduler"}

\* internal_scheduler_->IsRunningOnThread()
IsRunningOnThread(thread) == thread = "internal scheduler"

\* ProtocolHandler::HandleIncomingMessage(m), called on `thread`: the CHECK
\* of line 76, then what the call does to the handler, its listener and its
\* statistics.
HandleIncomingMessage(thread, m, accept) ==
  /\ halted = ""
  /\ IF ~IsRunningOnThread(thread)
       THEN /\ halted' = "Not on internal thread"
            /\ statistics_' = <<>> /\ listener_calls' = <<>>
            /\ UNCHANGED <<client_token, last_known_server_time_ms_,
                           next_message_send_time_ms_, quiet_log>>
       ELSE /\ \E r \in {HandleIncoming(m, accept)} :
                 /\ client_token' = r.token
                 /\ last_known_server_time_ms_' = r.server_time
                 /\ next_message_send_time_ms_' = r.send_time
                 /\ statistics_' = r.stats
                 /\ listener_calls' = r.calls
                 /\ quiet_log' = r.quiet
            /\ UNCHANGED halted
  /\ network_' = <<>>
  /\ UNCHANGED <<now, operations_, message_id_,
                 pending_registrations_, acked_invalidations_,
                 registration_subtrees_, rmVars, ssVars, histVars>>

\* ProtocolHandler::MessageReceiver(message) posts HandleIncomingMessage with
\* no delay; here the internal scheduler runs the closure before any other
\* entry point is called.
ReceiveAndHandle(m, accept) ==
  /\ HandleIncomingMessage("internal scheduler", m, accept)
  /\ handler' = [name |-> "HandleIncomingMessage", op |-> NULL,
                 message |-> m]
  /\ UNCHANGED scheduled

\* MessageReceiver that handles the message in the transport's call.
MessageReceiver_Direct(m, thread) ==
  /\ \E accept \in BOOLEAN : HandleIncomingMessage(thread, m, accept)
  /\ handler' = [name |-> "HandleIncomingMessage", op |-> NULL]
  /\ UNCHANGED scheduled

\* ProtocolHandler::MessageReceiver(message), called by the transport on
\* `thread`: posts HandleIncomingMessage with Scheduler::kNoDelay.
MessageReceiver(m, thread) ==
  /\ halted = ""
  /\ Len(scheduled) < MaxQueue
  /\ scheduled' = Append(scheduled, PostedTask("incoming", m, 0))
  /\ handler' = [name |-> "MessageReceiver", op |-> NULL, thread |-> thread]
  /\ statistics_' = <<>> /\ listener_calls' = <<>> /\ network_' = <<>>
  /\ UNCHANGED <<now, operations_, halted, client_token, message_id_,
                 last_known_server_time_ms_, next_message_send_time_ms_,
                 pending_registrations_, acked_invalidations_,
                 registration_subtrees_, quiet_log, rmVars, ssVars, histVars>>

\* The message a posted HandleIncomingMessage closure is bound to.
PostedMessage(i) == scheduled[i].op

\* The internal scheduler runs a posted HandleIncomingMessage closure, on
\* its thread.
RunPosted(i, accept) ==
  /\ Runnable(i)
  /\ scheduled[i].kind = "incoming"
  /\ HandleIncomingMessage("internal scheduler", scheduled[i].op, accept)
  /\ handler' = [name |-> "HandleIncomingMessage", op |-> NULL]
  /\ scheduled' = RemoveAt(scheduled, i)

\* ProtocolHandler::InitClientHeader; client_token "" is an unset field.
InitClientHeader ==
  [protocol_version |-> <<kProtocolMajorVersion, kProtocolMinorVersion>>,
   client_time_ms |-> now,
   message_id |-> StringPrintf_d(message_id_),
   max_known_server_time_ms |-> last_known_server_time_ms_,
   client_token |-> client_token]

\* The message SendMessageToServer assembles from the builder and the
\* pending batches (lines 302-348).
RegistrationEntries ==
  {[object_id |-> o, op_type |-> pending_registrations_[o]] :
     o \in DOMAIN pending_registrations_}

\* The acks added to the message twice.
Assembled_AcksTwice(builder) ==
  [header |-> InitClientHeader,
   initialize_message |-> builder.initialize_message,
   info_message |-> builder.info_message,
   invalidation_ack_message |->
     SetToBag(acked_invalidations_) (+) SetToBag(acked_invalidations_),
   registration_message |-> SetToBag(RegistrationEntries),
   registration_sync_message |-> SetToBag(registration_subtrees_)]

Assembled(builder) ==
  [header |-> InitClientHeader,
   initialize_message |-> builder.initialize_message,
   info_message |-> builder.info_message,
   invalidation_ack_message |-> SetToBag(acked_invalidations_),
   registration_message |-> SetToBag(RegistrationEntries),
   registration_sync_message |-> SetToBag(registration_subtrees_)]

\* The message carries invalidation acks, registrations or subtrees.
HasBatchedContent(message) ==
  \/ message.invalidation_ack_message # EmptyBag
  \/ message.registration_message # EmptyBag
  \/ message.registration_sync_message # EmptyBag

DrainStats ==
  (IF acked_invalidations_ # {} THEN <<"SENT_INVALIDATION_ACK">> ELSE <<>>)
  \o (IF DOMAIN pending_registrations_ # {} THEN <<"SENT_REGISTRATION">>
                                           ELSE <<>>)
  \o (IF registration_subtrees_ # {} THEN <<"SENT_REGISTRATION_SYNC">>
                                    ELSE <<>>)

\* The quiet-period check left out.
InQuietPeriod_Off == FALSE

\* The token check left out.
TokenMissing_Off(builder) == FALSE

\* The two checks that precede the assembly.
InQuietPeriod == next_message_send_time_ms_ > now
TokenMissing(builder) == client_token = "" /\ ~builder.initialize_message

\* message_id_ after an assembly that leaves out the increment of line 351.
MessageIdAfterSend_Once(id) == id + 1

\* message_id_ after an assembly: message_id_++ in InitClientHeader (line
\* 375), then ++message_id_ before the validation (line 351).
MessageIdAfterSend(id) == (id + 1) + 1

\* SendMessageToServer that validates before it drains the batches, and
\* keeps them when the message is invalid.
SendMessageToServer_KeepOnFailure(builder, valid, stats) ==
  IF InQuietPeriod
    THEN /\ statistics_' = stats
         /\ network_' = <<>>
         /\ UNCHANGED <<message_id_, pending_registrations_,
                        acked_invalidations_, registration_subtrees_,
                        batched_sent, submitted>>
  ELSE IF TokenMissing(builder)
    THEN /\ statistics_' = stats \o <<"ERROR_TOKEN_MISSING_FAILURE">>
         /\ network_' = <<>>
         /\ UNCHANGED <<message_id_, pending_registrations_,
                        acked_invalidations_, registration_subtrees_,
                        batched_sent, submitted>>
  ELSE /\ MessageIdAfterSend(message_id_) <= MaxMessageId
       /\ message_id_' = MessageIdAfterSend(message_id_)
       /\ submitted' = IF "submitted" \in recording
                          THEN [SinceAssembly EXCEPT !.drained = TRUE]
                          ELSE submitted
       /\ IF ~valid
            THEN /\ statistics_' = stats
                                     \o <<"ERROR_OUTGOING_MESSAGE_FAILURE">>
                 /\ network_' = <<>>
                 /\ UNCHANGED <<batched_sent, pending_registrations_,
                                acked_invalidations_, registration_subtrees_>>
            ELSE /\ statistics_' = stats \o DrainStats \o <<"SENT_TOTAL">>
                 /\ network_' = <<Assembled(builder)>>
                 /\ acked_invalidations_' = {}
                 /\ pending_registrations_' = <<>>
                 /\ registration_subtrees_' = {}
                 /\ batched_sent' =
                      IF /\ "batched_sent" \in recording
                         /\ HasBatchedContent(Assembled(builder))
                        THEN now ELSE batched_sent

\* ProtocolHandler::SendMessageToServer(builder, debug_string).  `valid` is
\* the validator's verdict on the assembled message, `stats` what the caller
\* has recorded before the call.
SendMessageToServer(builder, valid, stats) ==
  IF InQuietPeriod
    THEN /\ statistics_' = stats
         /\ network_' = <<>>
         /\ UNCHANGED <<message_id_, pending_registrations_,
                        acked_invalidations_, registration_subtrees_,
                        batched_sent, submitted>>
  ELSE IF TokenMissing(builder)
    THEN /\ statistics_' = stats \o <<"ERROR_TOKEN_MISSING_FAILURE">>
         /\ network_' = <<>>
         /\ UNCHANGED <<message_id_, pending_registrations_,
                        acked_invalidations_, registration_subtrees_,
                        batched_sent, submitted>>
  ELSE /\ MessageIdAfterSend(message_id_) <= MaxMessageId
       /\ message_id_' = MessageIdAfterSend(message_id_)
       /\ acked_invalidations_' = {}
       /\ pending_registrations_' = <<>>
       /\ registration_subtrees_' = {}
       /\ submitted' = IF "submitted" \in recording
                          THEN [SinceAssembly EXCEPT !.drained = TRUE]
                          ELSE submitted
       /\ IF ~valid
            THEN /\ statistics_' = stats \o DrainStats
                                     \o <<"ERROR_OUTGOING_MESSAGE_FAILURE">>
                 /\ network_' = <<>>
                 /\ UNCHANGED batched_sent
            ELSE /\ statistics_' = stats \o DrainStats \o <<"SENT_TOTAL">>
                 /\ network_' = <<Assembled(builder)>>
                 /\ batched_sent' =
                      IF /\ "batched_sent" \in recording
                         /\ HasBatchedContent(Assembled(builder))
                        THEN now ELSE batched_sent

ClientToServerMessage == [initialize_message |-> FALSE, info_message |-> FALSE]

\* ProtocolHandler::SendInitializeMessage
SendInitializeMessage(valid) ==
  /\ halted = ""
  /\ SendMessageToServer(
       [ClientToServerMessage EXCEPT !.initialize_message = TRUE], valid,
       <<"SENT_INITIALIZE">>)
  /\ handler' = [name |-> "SendInitializeMessage", op |-> NULL]
  /\ listener_calls' = <<>>
  /\ UNCHANGED <<now, operations_, scheduled, halted, client_token,
                 last_known_server_time_ms_, next_message_send_time_ms_,
                 quiet_log, rmVars, ssVars, recording, fired>>

\* ProtocolHandler::SendInfoMessage
SendInfoMessage(valid) ==
  /\ halted = ""
  /\ SendMessageToServer(
       [ClientToServerMessage EXCEPT !.info_message = TRUE], valid,
       <<"SENT_INFO">>)
  /\ handler' = [name |-> "SendInfoMessage", op |-> NULL]
  /\ listener_calls' = <<>>
  /\ UNCHANGED <<now, operations_, scheduled, halted, client_token,
                 last_known_server_time_ms_, next_message_send_time_ms_,
                 quiet_log, rmVars, ssVars, recording, fired>>

\* The history with one more call of a batching entry point.
Submit(field, argument) ==
  IF "submitted" \in recording
    THEN [SinceAssembly EXCEPT ![field] = Append(@, argument)]
    ELSE submitted

\* operation_scheduler_->Schedule(batching_task_.get()) at the end of the
\* three batching entry points.
ScheduleBatchingTask(name) ==
  IF ~Found(batching_task_)
    THEN Halt("it != operations_.end()", name, batching_task_)
    ELSE /\ now + operations_[batching_task_].delay <= MaxTime
         /\ LET r == SchedulePost(operations_, scheduled, batching_task_)
            IN /\ Len(r.queue) <= MaxQueue
               /\ operations_' = r.ops
               /\ scheduled' = r.queue
         /\ handler' = [name |-> name, op |-> NULL]
         /\ statistics_' = <<>> /\ listener_calls' = <<>> /\ network_' = <<>>
         /\ UNCHANGED <<now, halted, client_token, message_id_,
                        last_known_server_time_ms_,
                        next_message_send_time_ms_, quiet_log, rmVars,
                        ssVars, recording, fired, batched_sent>>

\* SendRegistrations with insert() in place of operator[]: an id that is
\* already pending keeps its op type.
SendRegistrations_FirstWins(object_ids, reg_op_type) ==
  /\ halted = ""
  /\ ScheduleBatchingTask("SendRegistrations")
  /\ Found(batching_task_) =>
       /\ pending_registrations_' =
            [o \in (DOMAIN pending_registrations_) \cup object_ids |->
               IF o \in DOMAIN pending_registrations_
                 THEN pending_registrations_[o] ELSE reg_op_type]
       /\ submitted' = Submit("registrations",
                              [object_ids |-> object_ids,
                               op_type |-> reg_op_type])
       /\ UNCHANGED <<acked_invalidations_, registration_subtrees_>>

\* ProtocolHandler::SendRegistrations(object_ids, reg_op_type)
SendRegistrations(object_ids, reg_op_type) ==
  /\ halted = ""
  /\ ScheduleBatchingTask("SendRegistrations")
  /\ Found(batching_task_) =>
       /\ pending_registrations_' =
            [o \in (DOMAIN pending_registrations_) \cup object_ids |->
               IF o \in object_ids THEN reg_op_type
                                   ELSE pending_registrations_[o]]
       /\ submitted' = Submit("registrations",
                              [object_ids |-> object_ids,
                               op_type |-> reg_op_type])
       /\ UNCHANGED <<acked_invalidations_, registration_subtrees_>>

\* ProtocolHandler::SendInvalidationAck(invalidation)
SendInvalidationAck(invalidation) ==
  /\ halted = ""
  /\ ScheduleBatchingTask("SendInvalidationAck")
  /\ Found(batching_task_) =>
       /\ acked_invalidations_' = acked_invalidations_ \cup {invalidation}
       /\ submitted' = Submit("acks", invalidation)
       /\ UNCHANGED <<pending_registrations_, registration_subtrees_>>

\* ProtocolHandler::SendRegistrationSyncSubtree(reg_subtree)
SendRegistrationSyncSubtree(reg_subtree) ==
  /\ halted = ""
  /\ ScheduleBatchingTask("SendRegistrationSyncSubtree")
  /\ Found(batching_task_) =>
       /\ registration_subtrees_' = registration_subtrees_ \cup {reg_subtree}
       /\ submitted' = Submit("subtrees", reg_subtree)
       /\ UNCHANGED <<pending_registrations_, acked_invalidations_>>

\* RunAndClearScheduled(batching_task_, info): closure->Run() is
\* ProtocolHandler::BatchingTask, which sends an empty ClientToServerMessage.
BatchingTask(i, valid) ==
  /\ halted = ""
  /\ Runnable(i)
  /\ scheduled[i].kind = "wrapper"
  /\ scheduled[i].op = batching_task_
  /\ SendMessageToServer(ClientToServerMessage, valid, <<>>)
  /\ operations_' =
       [operations_ EXCEPT ![batching_task_].has_been_scheduled = FALSE]
  /\ scheduled' = RemoveAt(scheduled, i)
  /\ handler' = [name |-> "RunAndClearScheduled", op |-> batching_task_,
                 again |-> batching_task_ \in DOMAIN fired]
  /\ fired' = IF "fired" \in recording
                THEN MapPut(fired, batching_task_, now) ELSE fired
  /\ listener_calls' = <<>>
  /\ UNCHANGED <<now, halted, client_token, last_known_server_time_ms_,
                 next_message_send_time_ms_, quiet_log, rmVars, ssVars,
                 recording>>

\* The state ProtocolHandler's constructor is written to leave: the batching
\* task set in its OperationScheduler with config.batching_delay (line 64).
Init ==
  /\ now = 0
  /\ operations_ = (batching_task_ :> OperationScheduleInfo(batching_delay))
  /\ scheduled = <<>>
  /\ halted = ""
  /\ handler = [name |-> "init", op |-> NULL]
  /\ InitPH
  /\ InitRM
  /\ InitSS
  /\ InitHist

\* The listener's answer matters when it is asked: with a token control
\* message in the envelope.
Answers(m) == IF m.token_control_message.has THEN BOOLEAN ELSE {TRUE}

Receive == \E m \in CoreMessages : \E a \in Answers(m) : ReceiveAndHandle(m, a)
RunBatching == \E i \in 1 .. Len(scheduled), v \in BOOLEAN :
                  BatchingTask(i, v)

\* The entry points that call SendMessageToServer.
SendStep ==
  \/ \E v \in BOOLEAN : SendInitializeMessage(v)
  \/ \E v \in BOOLEAN : SendInfoMessage(v)
  \/ RunBatching

Next ==
  \/ Receive
  \/ \E v \in BOOLEAN : SendInitializeMessage(v)
  \/ \E v \in BOOLEAN : SendInfoMessage(v)
  \/ \E ids \in SUBSET ObjectIds, t \in OpTypes : SendRegistrations(ids, t)
  \/ \E inv \in Invalidations : SendInvalidationAck(inv)
  \/ \E st \in Subtrees : SendRegistrationSyncSubtree(st)
  \/ RunBatching
  \/ Tick

Spec == Init /\ [][Next]_vars

\* No delivery is waiting for the internal scheduler.
NoDeliveryPending ==
  \A i \in 1 .. Len(scheduled) : scheduled[i].kind # "incoming"

\* The inbound path alone, over every message the transport can deliver,
\* each handled before the next is delivered.
NextIn ==
  \/ \E m \in Messages : NoDeliveryPending /\ MessageReceiver(m, "network")
  \/ \E i \in 1 .. Len(scheduled) :
        \E a \in Answers(PostedMessage(i)) : RunPosted(i, a)

SpecIn == Init /\ [][NextIn]_vars

\* --------------------------------------------------------- claims C5 - C10

Count(x, seq) == Cardinality({k \in 1 .. Len(seq) : seq[k] = x})

ErrorTypes == {"ERROR_INCOMING_MESSAGE_FAILURE",
               "ERROR_PROTOCOL_VERSION_FAILURE", "ERROR_TOKEN_MISMATCH",
               "ERROR_TOKEN_MISSING_FAILURE", "ERROR_OUTGOING_MESSAGE_FAILURE"}
NoErrorRecorded == \A k \in 1 .. Len(statistics_) : statistics_[k] \notin ErrorTypes

SendHandlers == {"SendInitializeMessage", "SendInfoMessage",
                 "RunAndClearScheduled"}

\* C5 (as claimed): no message is handed to the transport before the end
\* now + d of ANY quiet period a ConfigChangeMessage has set, and a send
\* attempted before that end records no error.
C5_NoSendInAnyWindow ==
  /\ network_ # <<>> => now >= quiet_log.longest
  /\ (handler.name \in SendHandlers /\ now < quiet_log.longest)
       => NoErrorRecorded

\* C5 (amended): no message is handed to the transport before the end t + d
\* of the quiet period set by the ConfigChangeMessage handled last, and a
\* send attempted before that end hands over nothing and records no error.
C5_NoSendInLatestWindow ==
  /\ network_ # <<>> => now >= quiet_log.last
  /\ (handler.name \in SendHandlers /\ now < quiet_log.last)
       => (network_ = <<>> /\ NoErrorRecorded)

\* C5 witness: the batching task has fired inside the quiet period the
\* server set last, which is shorter than one it had set before.
C5_Witness ==
  /\ handler.name = "RunAndClearScheduled"
  /\ now < quiet_log.last
  /\ quiet_log.last < quiet_log.longest
  /\ client_token # ""
  /\ network_ = <<>>

\* C6 (as claimed): when the batching task's send has been dropped for the
\* quiet period while a token is held and an ack is still pending, the
\* batching task is scheduled to fire again.
C6_BatchingTaskFiresAgain ==
  (/\ handler.name = "RunAndClearScheduled"
   /\ client_token # ""
   /\ acked_invalidations_ # {}
   /\ statistics_ = <<>> /\ network_ = <<>>)
    => Wrappers(batching_task_) # {}

\* C6 (amended): a batching task that fires inside the quiet period keeps
\* the acks and is not scheduled again; an ack leaves acked_invalidations
\* only in a send outside the quiet period, which empties the collection and,
\* unless the assembled message fails validation, hands the transport one
\* message containing every pending ack once.
C6_AckKeptUntilNextAssembly ==
  [][/\ (/\ next_message_send_time_ms_ > now
         /\ handler'.name = "RunAndClearScheduled"
         /\ RunBatching)
          => /\ acked_invalidations_' = acked_invalidations_
             /\ network_' = <<>>
             /\ ~operations_'[batching_task_].has_been_scheduled
             /\ Len(scheduled') = Len(scheduled) - 1
     /\ (acked_invalidations_ \ acked_invalidations_' # {})
          => /\ SendStep
             /\ ~(next_message_send_time_ms_ > now)
             /\ acked_invalidations_' = {}
             /\ \/ /\ Len(network_') = 1
                   /\ network_'[1].invalidation_ack_message =
                        SetToBag(acked_invalidations_)
                \/ /\ network_' = <<>>
                   /\ Count("ERROR_OUTGOING_MESSAGE_FAILURE", statistics_') = 1
    ]_vars

\* C6 witness: the batching task has been dropped for the quiet period with
\* a token held; the ack is still pending and no wrapper is.
C6_Witness ==
  /\ handler.name = "RunAndClearScheduled"
  /\ client_token # ""
  /\ now < next_message_send_time_ms_
  /\ acked_invalidations_ # {}
  /\ Wrappers(batching_task_) = {}

\* C7: a SendMessageToServer call that hands a message to the transport
\* leaves the three collections empty, and the message holds exactly the
\* items the collections held before the call, each once; items enter the
\* collections only through the Send* call that submits them.
C7_DrainedExactlyOnce ==
  [][/\ (network_' # <<>> /\ SendStep)
          => /\ Len(network_') = 1
             /\ acked_invalidations_' = {}
             /\ DOMAIN pending_registrations_' = {}
             /\ registration_subtrees_' = {}
             /\ LET msg == network_'[1]
                IN /\ BagToSet(msg.invalidation_ack_message) =
                        acked_invalidations_
                   /\ \A x \in acked_invalidations_ :
                        CopiesIn(x, msg.invalidation_ack_message) = 1
                   /\ BagToSet(msg.registration_message) =
                        {[object_id |-> o,
                          op_type |-> pending_registrations_[o]] :
                           o \in DOMAIN pending_registrations_}
                   /\ \A x \in BagToSet(msg.registration_message) :
                        CopiesIn(x, msg.registration_message) = 1
                   /\ BagToSet(msg.registration_sync_message) =
                        registration_subtrees_
                   /\ \A x \in registration_subtrees_ :
                        CopiesIn(x, msg.registration_sync_message) = 1
     /\ (acked_invalidations_' \ acked_invalidations_ # {})
          => \E inv \in acked_invalidations_' : SendInvalidationAck(inv)
     /\ (registration_subtrees_' \ registration_subtrees_ # {})
          => \E st \in registration_subtrees_' :
                SendRegistrationSyncSubtree(st)
     /\ (\E o \in DOMAIN pending_registrations_' :
            o \notin DOMAIN pending_registrations_)
          => \E ids \in SUBSET ObjectIds, t \in OpTypes :
                SendRegistrations(ids, t)
    ]_vars

\* C7 witness: the second message handed to the transport carries an ack, a
\* registration and a subtree, and the collections are empty.
C7_Witness ==
  /\ Len(network_) = 1
  /\ network_[1].header.message_id = "3"
  /\ BagToSet(network_[1].invalidation_ack_message) # {}
  /\ BagToSet(network_[1].registration_message) # {}
  /\ BagToSet(network_[1].registration_sync_message) # {}
  /\ acked_invalidations_ = {}
  /\ DOMAIN pending_registrations_ = {}
  /\ registration_subtrees_ = {}

\* C8: outside a quiet period a send without initialize_message by a client
\* without a token records TOKEN_MISSING_FAILURE once, hands nothing to the
\* transport and leaves the collections and message_id_ alone; every message
\* handed to the transport has an initialize_message or a token in its header.
C8_TokenMissingDropped ==
  /\ [][(/\ client_token = ""
         /\ ~(next_message_send_time_ms_ > now)
         /\ handler'.name \in {"SendInfoMessage", "RunAndClearScheduled"}
         /\ (\E v \in BOOLEAN : SendInfoMessage(v)) \/ RunBatching)
          => /\ Count("ERROR_TOKEN_MISSING_FAILURE", statistics_') = 1
             /\ network_' = <<>>
             /\ UNCHANGED <<pending_registrations_, acked_invalidations_,
                            registration_subtrees_, message_id_>>]_vars
  /\ [](\A k \in 1 .. Len(network_) :
          \/ network_[k].initialize_message
          \/ network_[k].header.client_token # "")

\* C8 witness: the batching task has fired without a token outside a quiet
\* period, and the pending items are still there.
C8_Witness ==
  /\ handler.name = "RunAndClearScheduled"
  /\ client_token = ""
  /\ statistics_ = <<"ERROR_TOKEN_MISSING_FAILURE">>
  /\ acked_invalidations_ # {}
  /\ DOMAIN pending_registrations_ # {}
  /\ registration_subtrees_ # {}

\* C9 (as claimed): handling any message whose header major version is not
\* kProtocolMajorVersion invokes no listener callback and records
\* PROTOCOL_VERSION_FAILURE once.
C9_VersionFailureForAny ==
  [][\A i \in 1 .. Len(scheduled), a \in BOOLEAN :
       (/\ RunPosted(i, a)
        /\ PostedMessage(i).parse # "unparseable"
        /\ PostedMessage(i).major_version # kProtocolMajorVersion)
         => /\ listener_calls' = <<>>
            /\ Count("ERROR_PROTOCOL_VERSION_FAILURE", statistics_') = 1]_vars

\* C9 (amended): handling a message that parses and passes validation and
\* whose header major version is not kProtocolMajorVersion invokes no
\* listener callback, records PROTOCOL_VERSION_FAILURE once and changes
\* nothing else.
C9_VersionFailureForValid ==
  [][\A i \in 1 .. Len(scheduled), a \in BOOLEAN :
       (/\ RunPosted(i, a)
        /\ PostedMessage(i).parse = "valid"
        /\ PostedMessage(i).major_version # kProtocolMajorVersion)
         => /\ listener_calls' = <<>>
            /\ Count("ERROR_PROTOCOL_VERSION_FAILURE", statistics_') = 1
            /\ UNCHANGED <<client_token, last_known_server_time_ms_,
                           next_message_send_time_ms_>>]_vars

\* C9 witness: a client that holds a token has dropped a message for its
\* version.
C9_Witness ==
  /\ handler.name = "HandleIncomingMessage"
  /\ client_token # ""
  /\ statistics_ = <<"RECEIVED_TOTAL", "ERROR_PROTOCOL_VERSION_FAILURE">>
  /\ listener_calls = <<>>

\* C10: a valid envelope of the right version that holds a
\* ConfigChangeMessage sets next_message_send_time_ms to now + delay when the
\* delay is set, whatever its header token; it invokes no listener callback
\* and records no TOKEN_MISMATCH; and nothing else changes
\* next_message_send_time_ms.
C10_ConfigChangeBeforeToken ==
  [][/\ (/\ handler'.name = "HandleIncomingMessage"
         /\ handler'.message.parse = "valid"
         /\ handler'.message.major_version = kProtocolMajorVersion
         /\ handler'.message.config_change_message.has
         /\ ReceiveAndHandle(handler'.message, TRUE))
          => LET cc == handler'.message.config_change_message
             IN /\ next_message_send_time_ms_' =
                     IF cc.has_next_message_delay_ms
                       THEN now + cc.next_message_delay_ms
                       ELSE next_message_send_time_ms_
                /\ listener_calls' = <<>>
                /\ Count("ERROR_TOKEN_MISMATCH", statistics_') = 0
     /\ (next_message_send_time_ms_' # next_message_send_time_ms_)
          => /\ handler'.name = "HandleIncomingMessage"
             /\ handler'.message.parse = "valid"
             /\ handler'.message.major_version = kProtocolMajorVersion
             /\ handler'.message.config_change_message.has_next_message_delay_ms
             /\ ReceiveAndHandle(handler'.message, TRUE)
    ]_vars

\* C10 witness: a client that holds token "A" is in a quiet period set at a
\* time after 0 by an envelope for token "B" that recorded nothing but its
\* receipt.
C10_Witness ==
  /\ handler.name = "HandleIncomingMessage"
  /\ handler.message.client_token = "B"
  /\ client_token = "A"
  /\ now > 0
  /\ next_message_send_time_ms_ > now
  /\ statistics_ = <<"RECEIVED_TOTAL">>
  /\ listener_calls = <<>>

\* -------------------------------------------------------- claims C11 - C20

\* A message that gets to the token check of line 131: it parses, passes
\* validation, has the right major version and holds no config change.
ReachesTokenCheck(m) ==
  /\ m.parse = "valid"
  /\ m.major_version = kProtocolMajorVersion
  /\ ~m.config_change_message.has

\* C11: a client with a token that handles a valid message of the right
\* version without a ConfigChangeMessage whose header token differs from its
\* own records TOKEN_MISMATCH once, invokes no listener callback and keeps
\* its token and its known server time.
C11_TokenMismatchDropsAll ==
  [][\A i \in 1 .. Len(scheduled), a \in BOOLEAN :
       (/\ client_token # ""
        /\ scheduled[i].kind = "incoming"
        /\ ReachesTokenCheck(PostedMessage(i))
        /\ PostedMessage(i).client_token # client_token
        /\ RunPosted(i, a))
         => /\ Count("ERROR_TOKEN_MISMATCH", statistics_') = 1
            /\ listener_calls' = <<>>
            /\ UNCHANGED <<client_token, last_known_server_time_ms_,
                           next_message_send_time_ms_>>]_vars

\* C11 witness: a client that knows a server time has dropped a message for
\* its token.
C11_Witness ==
  /\ handler.name = "HandleIncomingMessage"
  /\ client_token # ""
  /\ last_known_server_time_ms_ > 0
  /\ statistics_ = <<"RECEIVED_TOTAL", "ERROR_TOKEN_MISMATCH">>
  /\ listener_calls = <<>>

\* C12 (as claimed): the four sub-message callbacks are invoked only if the
\* client token is non-empty after the token control dispatch, and a client
\* that has no token when the message arrives receives at most the
\* HandleTokenChanged callback from it.
C12_TokenlessGetsOnlyTokenChanged ==
  [][\A i \in 1 .. Len(scheduled), a \in BOOLEAN :
       (scheduled[i].kind = "incoming" /\ RunPosted(i, a))
         => /\ (\E k \in 1 .. Len(listener_calls') :
                   listener_calls'[k] # "HandleTokenChanged")
                 => client_token' # ""
            /\ client_token = ""
                 => \A k \in 1 .. Len(listener_calls') :
                       listener_calls'[k] = "HandleTokenChanged"]_vars

\* C12 (amended): the four sub-message callbacks are invoked only if the
\* client token is non-empty after the token control dispatch; a client
\* whose token is empty at that point, because the upcall left or made it
\* empty, receives at most one HandleTokenChanged callback from the message.
C12_SubMessagesNeedToken ==
  [][\A i \in 1 .. Len(scheduled), a \in BOOLEAN :
       (scheduled[i].kind = "incoming" /\ RunPosted(i, a))
         => /\ (\E k \in 1 .. Len(listener_calls') :
                   listener_calls'[k] # "HandleTokenChanged")
                 => client_token' # ""
            /\ client_token' = ""
                 => listener_calls' \in {<<>>, <<"HandleTokenChanged">>}]_vars

\* C12 witness: a token control upcall has left the client without a token,
\* and no other callback was made.
C12_Witness ==
  /\ handler.name = "HandleIncomingMessage"
  /\ client_token = ""
  /\ statistics_ = <<"RECEIVED_TOTAL", "RECEIVED_TOKEN_CONTROL">>
  /\ listener_calls = <<"HandleTokenChanged">>
  /\ last_known_server_time_ms_ > 0

\* C13: last_known_server_time_ms never decreases; HandleIncomingMessage
\* leaves it at the maximum of its value and the header's server_time_ms when
\* the message is valid, of the right version, without a config change and
\* accepted by the token check, and leaves it alone otherwise; the header of
\* every message handed to the transport carries its value at assembly.
C13_ServerTimeMonotonic ==
  [][/\ last_known_server_time_ms_' >= last_known_server_time_ms_
     /\ (handler'.name = "HandleIncomingMessage" /\ now' = now)
          => LET m == handler'.message
                 passed == /\ ReachesTokenCheck(m)
                           /\ client_token = "" \/ m.client_token = client_token
             IN last_known_server_time_ms_' =
                  IF passed
                    THEN Max(last_known_server_time_ms_, m.server_time_ms)
                    ELSE last_known_server_time_ms_
     /\ (network_' # <<>> /\ SendStep)
          => \A k \in 1 .. Len(network_') :
                network_'[k].header.max_known_server_time_ms =
                  last_known_server_time_ms_
    ]_vars

\* C13 witness: a client that knows a server time has accepted and
\* dispatched a message with an earlier server time.
C13_Witness ==
  /\ handler.name = "HandleIncomingMessage"
  /\ ReachesTokenCheck(handler.message)
  /\ handler.message.client_token = client_token
  /\ handler.message.server_time_ms < last_known_server_time_ms_
  /\ listener_calls # <<>>

\* ------------------------------------------------------ RegistrationManager

MaxIds == 2           \* object ids handed to one PerformOperations call
MaxStatuses == 2      \* status entries handed to one HandleRegistrationStatus
MaxOps == 2           \* PerformOperations calls made

StatusCodes == {"SUCCESS", "TRANSIENT_FAILURE"}

\* Sequences over `set` of length 0 .. n
SeqsUpTo(set, n) == UNION {[1 .. k -> set] : k \in 0 .. n}

\* RegistrationStatus: registration().object_id(), registration().op_type()
\* and status().code()
RegistrationStatuses ==
  [object_id : RmObjectIds, op_type : OpTypes, code : StatusCodes]

\* What the ProtocolHandler's state is to the RegistrationManager: untouched,
\* but for the Statistics object the two share.
phOther == <<client_token, message_id_, last_known_server_time_ms_,
             next_message_send_time_ms_, pending_registrations_,
             acked_invalidations_, registration_subtrees_, listener_calls,
             network_, quiet_log>>

\* SimpleRegistrationStore::Add(object_ids) / Remove(object_ids): one
\* element after the other.
RECURSIVE Add(_, _)
Add(set, object_ids) ==
  IF object_ids = <<>> THEN set
  ELSE Add(set \cup {Head(object_ids)}, Tail(object_ids))

RECURSIVE Remove(_, _)
Remove(set, object_ids) ==
  IF object_ids = <<>> THEN set
  ELSE Remove(set \ {Head(object_ids)}, Tail(object_ids))

\* PerformOperations that adds whatever the operation type.
PerformOperations_AddOnly(object_ids, reg_op_type) ==
  /\ Len(perform_log.ops) < MaxOps
  /\ desired_registrations_' = Add(desired_registrations_, object_ids)
  /\ perform_log' = [perform_log EXCEPT
                       !.ops = Append(@, [object_ids |-> object_ids,
                                          reg_op_type |-> reg_op_type])]
  /\ handler' = [name |-> "PerformOperations", op |-> NULL,
                 object_ids |-> object_ids]
  /\ statistics_' = <<>>
  /\ UNCHANGED <<now, operations_, scheduled, halted, phOther,
                 last_known_server_summary_, success_status, ssVars, histVars>>

\* RegistrationManager::PerformOperations(object_ids, reg_op_type)
PerformOperations(object_ids, reg_op_type) ==
  /\ Len(perform_log.ops) < MaxOps
  /\ desired_registrations_' =
       IF reg_op_type = "REGISTER"
         THEN Add(desired_registrations_, object_ids)
         ELSE Remove(desired_registrations_, object_ids)
  /\ perform_log' = [perform_log EXCEPT
                       !.ops = Append(@, [object_ids |-> object_ids,
                                          reg_op_type |-> reg_op_type])]
  /\ handler' = [name |-> "PerformOperations", op |-> NULL,
                 object_ids |-> object_ids]
  /\ statistics_' = <<>>
  /\ UNCHANGED <<now, operations_, scheduled, halted, phOther,
                 last_known_server_summary_, success_status, ssVars, histVars>>

\* A discrepancy seen only for a registration the client does not desire.
Discrepancy_RegisterOnly(is_register, in_requested_map) ==
  is_register /\ ~in_requested_map

\* is_register ^ in_requested_map (line 83)
Discrepancy(is_register, in_requested_map) ==
  is_register # in_requested_map

\* ReconcileOne that takes over the server's state on a discrepancy: a
\* successful REGISTER of an object that is not desired adds it.
ReconcileOne_AdoptServer(registration_status, acc) ==
  LET object_id_proto == registration_status.object_id
  IN IF registration_status.code = "SUCCESS"
       THEN LET in_requested_map == object_id_proto \in acc.desired
                is_register == registration_status.op_type = "REGISTER"
            IN IF Discrepancy(is_register, in_requested_map)
                 THEN [desired |-> IF is_register
                                     THEN acc.desired \cup {object_id_proto}
                                     ELSE acc.desired \ {object_id_proto},
                       stats |-> Append(acc.stats,
                                        "ERROR_REGISTRATION_DISCREPANCY"),
                       success |-> Append(acc.success, FALSE)]
                 ELSE [acc EXCEPT !.success = Append(@, TRUE)]
       ELSE [acc EXCEPT !.desired = @ \ {object_id_proto},
                        !.success = Append(@, FALSE)]

\* One pass of the loop of lines 65-106 over entry i of the statuses; acc
\* holds the store, the vector and the statistics recorded so far.
ReconcileOne(registration_status, acc) ==
  LET object_id_proto == registration_status.object_id
  IN IF registration_status.code = "SUCCESS"
       THEN LET in_requested_map == object_id_proto \in acc.desired
                is_register == registration_status.op_type = "REGISTER"
            IN IF Discrepancy(is_register, in_requested_map)
                 THEN [desired |-> acc.desired \ {object_id_proto},
                       stats |-> Append(acc.stats,
                                        "ERROR_REGISTRATION_DISCREPANCY"),
                       success |-> Append(acc.success, FALSE)]
                 ELSE [acc EXCEPT !.success = Append(@, TRUE)]
       ELSE [acc EXCEPT !.desired = @ \ {object_id_proto},
                        !.success = Append(@, FALSE)]

RECURSIVE Reconcile(_, _, _)
Reconcile(registration_statuses, i, acc) ==
  IF i > Len(registration_statuses) THEN acc
  ELSE Reconcile(registration_statuses, i + 1,
                 ReconcileOne(registration_statuses[i], acc))

\* RegistrationManager::HandleRegistrationStatus(registration_statuses,
\* success_status); `vector` is the caller's vector as it is handed in.
HandleRegistrationStatus(registration_statuses, vector) ==
  LET r == Reconcile(registration_statuses, 1,
                     [desired |-> desired_registrations_, stats |-> <<>>,
                      success |-> vector])
  IN /\ desired_registrations_' = r.desired
     /\ statistics_' = r.stats
     /\ success_status' = r.success
     /\ perform_log' = [base |-> r.desired, ops |-> <<>>]
     /\ handler' = [name |-> "HandleRegistrationStatus", op |-> NULL,
                    registration_statuses |-> registration_statuses,
                    success_status |-> vector]
     /\ UNCHANGED <<now, operations_, scheduled, halted, phOther,
                    last_known_server_summary_, ssVars, histVars>>

Vectors == {<<>>, <<TRUE>>}

\* The application's calls on a freshly constructed manager.
NextRM ==
  \E ids \in SeqsUpTo(RmObjectIds, MaxIds), t \in OpTypes :
     PerformOperations(ids, t)

SpecRM == Init /\ [][NextRM]_vars

\* A manager whose store holds what earlier PerformOperations calls left.
InitReconcile ==
  /\ now = 0
  /\ operations_ = (batching_task_ :> OperationScheduleInfo(batching_delay))
  /\ scheduled = <<>>
  /\ halted = ""
  /\ handler = [name |-> "init", op |-> NULL]
  /\ InitPH
  /\ InitSS
  /\ InitHist
  /\ desired_registrations_ \in SUBSET RmObjectIds
  /\ last_known_server_summary_ =
       [num_registrations |-> 0, registration_digest |-> GetDigest({})]
  /\ success_status = <<>>
  /\ perform_log = [base |-> desired_registrations_, ops |-> <<>>]

\* The caller takes the vector and issues the registration failures to the
\* application (the comment of lines 85-87).
IssueRegistrationFailures ==
  /\ handler.name = "HandleRegistrationStatus"
  /\ handler' = [name |-> "IssueRegistrationFailures", op |-> NULL]
  /\ success_status' = <<>>
  /\ statistics_' = <<>>
  /\ UNCHANGED <<now, operations_, scheduled, halted, phOther,
                 desired_registrations_, last_known_server_summary_,
                 perform_log, ssVars, histVars>>

\* The server's registration status reports, as the listener passes them on:
\* each report is dealt with before the next is handled.
NextReconcile ==
  \/ \E sts \in SeqsUpTo(RegistrationStatuses, MaxStatuses), v \in Vectors :
        /\ handler.name # "HandleRegistrationStatus"
        /\ HandleRegistrationStatus(sts, v)
  \/ IssueRegistrationFailures

SpecReconcile == InitReconcile /\ [][NextReconcile]_vars

\* C14: HandleRegistrationStatus appends one boolean per status entry to the
\* vector, in order; with D the desired set as the entries before it left
\* it, the boolean of an entry is true iff its code is SUCCESS and
\* (op = REGISTER) = (id in D); every other entry removes its id from D; and
\* REGISTRATION_DISCREPANCY is recorded once per SUCCESS entry whose boolean
\* is false, and not for the others.
RECURSIVE DesiredBefore(_, _, _)
DesiredBefore(sts, k, D) ==
  IF k = 1 THEN D
  ELSE LET prev == DesiredBefore(sts, k - 1, D)
           e == sts[k - 1]
       IN IF e.code = "SUCCESS"
             /\ ((e.op_type = "REGISTER") <=> (e.object_id \in prev))
            THEN prev ELSE prev \ {e.object_id}

C14_OneBooleanPerStatus ==
  [][(/\ handler'.name = "HandleRegistrationStatus"
      /\ handler.name # "HandleRegistrationStatus"
      /\ HandleRegistrationStatus(handler'.registration_statuses,
                                  handler'.success_status))
       => LET sts == handler'.registration_statuses
              v == handler'.success_status
              D(k) == DesiredBefore(sts, k, desired_registrations_)
              agrees(k) == (sts[k].op_type = "REGISTER")
                             <=> (sts[k].object_id \in D(k))
          IN /\ Len(success_status') = Len(v) + Len(sts)
             /\ SubSeq(success_status', 1, Len(v)) = v
             /\ \A k \in 1 .. Len(sts) :
                   success_status'[Len(v) + k] =
                     (sts[k].code = "SUCCESS" /\ agrees(k))
             /\ desired_registrations_' = D(Len(sts) + 1)
             /\ Count("ERROR_REGISTRATION_DISCREPANCY", statistics_') =
                  Cardinality({k \in 1 .. Len(sts) :
                                 sts[k].code = "SUCCESS" /\ ~agrees(k)})
             /\ Len(statistics_') =
                  Count("ERROR_REGISTRATION_DISCREPANCY", statistics_')
    ]_vars

\* C14 witness: the server has reported a successful unregistration of a
\* desired id and then a successful registration of it: two discrepancies,
\* two failures, and the id is no longer desired.
C14_Witness ==
  /\ handler.name = "HandleRegistrationStatus"
  /\ Len(handler.registration_statuses) = 2
  /\ handler.registration_statuses[1] =
       [object_id |-> "x", op_type |-> "UNREGISTER", code |-> "SUCCESS"]
  /\ handler.registration_statuses[2] =
       [object_id |-> "x", op_type |-> "REGISTER", code |-> "SUCCESS"]
  /\ perform_log.base = {"y"}
  /\ success_status = <<FALSE, FALSE>>
  /\ statistics_ = <<"ERROR_REGISTRATION_DISCREPANCY",
                     "ERROR_REGISTRATION_DISCREPANCY">>

\* The desired set the PerformOperations calls `ops` leave when made on
\* `set`: REGISTER adds the ids of a call, UNREGISTER removes them.
RECURSIVE DesiredAfter(_, _)
DesiredAfter(ops, set) ==
  IF ops = <<>> THEN set
  ELSE LET ids == {Head(ops).object_ids[k] :
                     k \in 1 .. Len(Head(ops).object_ids)}
       IN DesiredAfter(Tail(ops),
                       IF Head(ops).reg_op_type = "REGISTER"
                         THEN set \cup ids ELSE set \ ids)

\* C15: after any sequence of PerformOperations calls GetClientSummary is
\* the size and the digest of the set those calls leave desired, whatever
\* the order and the repetitions of the ids; and last_known_server_summary_
\* of a constructed manager is the summary of the empty set.
C15_SummaryOfDesiredSet ==
  LET D == DesiredAfter(perform_log.ops, perform_log.base)
  IN /\ GetClientSummary = [num_registrations |-> Cardinality(D),
                            registration_digest |-> GetDigest(D)]
     /\ last_known_server_summary_ =
          [num_registrations |-> 0, registration_digest |-> GetDigest({})]

\* C15 witness: y and x have been registered in that order, and y twice
\* more; the summary is that of {x, y}.
C15_Witness ==
  /\ Len(perform_log.ops) = 2
  /\ perform_log.ops[1] =
       [object_ids |-> <<"y", "x">>, reg_op_type |-> "REGISTER"]
  /\ perform_log.ops[2] =
       [object_ids |-> <<"y", "y">>, reg_op_type |-> "REGISTER"]
  /\ GetClientSummary =
       [num_registrations |-> 2, registration_digest |-> "digest(xy)"]

\* -------------------------------------------------------------- SafeStorage

\* The four operations and the values their delegates report: a Status, a
\* StatusStringPair or a bool, written out.
StorageOps == {"WriteKey", "ReadKey", "DeleteKey", "ReadAllKeys"}
Results(storage_op) ==
  CASE storage_op = "WriteKey" -> {"Status(SUCCESS)", "Status(PERMANENT_FAILURE)"}
    [] storage_op = "ReadKey" ->
         {"(Status(SUCCESS), value)", "(Status(PERMANENT_FAILURE), )"}
    [] storage_op = "DeleteKey" -> {"true", "false"}
    [] storage_op = "ReadAllKeys" ->
         {"(Status(SUCCESS), key)", "(Status(PERMANENT_FAILURE), )"}

\* new CallbackWrapper<ArgumentType>(callback, arg), as the internal
\* scheduler holds it once it is scheduled with Scheduler::NoDelay().
CallbackWrapper(callback, arg) ==
  [kind |-> "CallbackWrapper", op |-> NULL, delay |-> 0, posted |-> now,
   callback_ |-> callback, arg_ |-> arg]

\* callback->Run(arg) by `thread`
Run(completions, callback, arg, thread) ==
  [completions EXCEPT ![callback].runs =
     Append(@, [thread |-> thread, arg |-> arg])]

\* delete callback
Delete(completions, callback) ==
  [completions EXCEPT ![callback].deleted = @ + 1]

\* The completion run and deleted where the delegate reports, with no
\* closure handed to the scheduler.
StorageCallback_Direct(queue, completions, callback, result, thread) ==
  [queue |-> queue,
   done |-> Delete(Run(completions, callback, result, thread), callback)]

\* SafeStorage::WriteCallback / ReadCallback / DeleteCallback /
\* ReadAllCallback(done, result), run by `thread`: the four bodies differ in
\* the argument type only.
StorageCallback(queue, completions, callback, result, thread) ==
  [queue |-> Append(queue, CallbackWrapper(callback, result)),
   done |-> completions]

\* What the RegistrationManager and the ProtocolHandler are to SafeStorage.
ssOther == <<now, operations_, halted, phVars, rmVars, histVars>>

\* SafeStorage::WriteKey / ReadKey / DeleteKey / ReadAllKeys(..., done) on
\* the caller's thread.  The delegate either keeps the permanent callback it
\* is handed, or runs it with `result` before it returns.
StorageCall(storage_op, synchronous, result) ==
  /\ halted = ""
  /\ Len(done) < MaxCalls
  /\ LET callback == Len(done) + 1
         created == Append(done, [op |-> storage_op, runs |-> <<>>,
                                  deleted |-> 0])
     IN IF synchronous
          THEN LET r == StorageCallback(scheduled, created, callback, result,
                                        "caller")
               IN /\ scheduled' = r.queue
                  /\ done' = r.done
                  /\ delegate_' = Append(delegate_,
                                         [callback |-> "run and deleted",
                                          result |-> result,
                                          thread |-> "caller"])
          ELSE /\ scheduled' = scheduled
               /\ done' = created
               /\ delegate_' = Append(delegate_,
                                      [callback |-> "held", result |-> "",
                                       thread |-> ""])
  /\ handler' = [name |-> storage_op, op |-> NULL]
  /\ UNCHANGED ssOther

\* The delegate completes on a thread of its own: it runs the permanent
\* callback with its result and deletes it.
DelegateCompletes(callback, result) ==
  /\ halted = ""
  /\ callback \in DOMAIN delegate_
  /\ delegate_[callback].callback = "held"
  /\ result \in Results(done[callback].op)
  /\ LET r == StorageCallback(scheduled, done, callback, result, "delegate")
     IN /\ scheduled' = r.queue
        /\ done' = r.done
  /\ delegate_' = [delegate_ EXCEPT ![callback] =
                     [callback |-> "run and deleted", result |-> result,
                      thread |-> "delegate"]]
  /\ handler' = [name |-> "DelegateCompletes", op |-> NULL]
  /\ UNCHANGED ssOther

\* The delegate never completes: it deletes the permanent callback without
\* running it.
DelegateAbandons(callback) ==
  /\ halted = ""
  /\ callback \in DOMAIN delegate_
  /\ delegate_[callback].callback = "held"
  /\ delegate_' = [delegate_ EXCEPT ![callback].callback = "deleted"]
  /\ handler' = [name |-> "DelegateAbandons", op |-> NULL]
  /\ UNCHANGED <<scheduled, done, ssOther>>

\* The internal scheduler runs a CallbackWrapper on its thread and deletes
\* it: CallbackWrapper::Run, then ~CallbackWrapper.
RunCallbackWrapper(i) ==
  /\ halted = ""
  /\ Runnable(i)
  /\ scheduled[i].kind = "CallbackWrapper"
  /\ done' = Delete(Run(done, scheduled[i].callback_, scheduled[i].arg_,
                        "internal scheduler"),
                    scheduled[i].callback_)
  /\ scheduled' = RemoveAt(scheduled, i)
  /\ handler' = [name |-> "CallbackWrapper::Run", op |-> NULL]
  /\ UNCHANGED <<delegate_, ssOther>>

\* The internal scheduler deletes a CallbackWrapper it has not run:
\* ~CallbackWrapper alone.
DropCallbackWrapper(i) ==
  /\ halted = ""
  /\ i \in 1 .. Len(scheduled)
  /\ scheduled[i].kind = "CallbackWrapper"
  /\ done' = Delete(done, scheduled[i].callback_)
  /\ scheduled' = RemoveAt(scheduled, i)
  /\ handler' = [name |-> "~CallbackWrapper", op |-> NULL]
  /\ UNCHANGED <<delegate_, ssOther>>

NextSS ==
  \/ \E o \in StorageOps, sync \in BOOLEAN : \E r \in Results(o) :
        StorageCall(o, sync, r)
  \/ \E c \in DOMAIN delegate_ : \E r \in Results(done[c].op) :
        DelegateCompletes(c, r)
  \/ \E c \in DOMAIN delegate_ : DelegateAbandons(c)
  \/ \E i \in 1 .. Len(scheduled) : RunCallbackWrapper(i)
  \/ \E i \in 1 .. Len(scheduled) : DropCallbackWrapper(i)

SpecSS == Init /\ [][NextSS]_vars

\* The CallbackWrappers the internal scheduler holds for completion `c`.
WrappersOf(c) ==
  {i \in 1 .. Len(scheduled) :
      IF scheduled[i].kind = "CallbackWrapper"
        THEN scheduled[i].callback_ = c ELSE FALSE}

\* C16: a completion is run by the internal scheduler only, with the value
\* the delegate reported; a run happens in no SafeStorage call and in no
\* completion of the delegate, whichever thread the delegate completes on,
\* but in the step in which the internal scheduler runs a closure that was
\* scheduled for that completion with no delay.
C16_RunOnInternalSchedulerOnly ==
  /\ [](\A c \in DOMAIN done : \A k \in 1 .. Len(done[c].runs) :
          /\ done[c].runs[k].thread = "internal scheduler"
          /\ done[c].runs[k].arg = delegate_[c].result)
  /\ [][\A c \in DOMAIN done' :
          (Len(done'[c].runs) >
             (IF c \in DOMAIN done THEN Len(done[c].runs) ELSE 0))
            => \E i \in WrappersOf(c) :
                  /\ scheduled[i].delay = 0
                  /\ scheduled[i].arg_ = delegate_[c].result
                  /\ RunCallbackWrapper(i)]_vars

\* C16 witness: the delegate has completed one call before it returned, on
\* the caller's thread, and another on its own thread with a failure; both
\* completions have been run.
C16_Witness ==
  /\ Len(done) = 2
  /\ delegate_[1].thread = "caller"
  /\ delegate_[2].thread = "delegate"
  /\ delegate_[2].result = "Status(PERMANENT_FAILURE)"
  /\ Len(done[1].runs) = 1
  /\ Len(done[2].runs) = 1

\* C17: the completion of a call is run at most once and deleted at most
\* once; once the delegate is through with the call and no closure for it
\* is left with the scheduler, the completion has been deleted exactly once,
\* whether the delegate completed (the completion was then run once, or
\* dropped unrun with its closure) or never completed (it was not run).
C17_RunOnceDestroyedOnce ==
  \A c \in DOMAIN done :
    /\ Len(done[c].runs) <= 1
    /\ done[c].deleted <= 1
    /\ (delegate_[c].callback # "held" /\ WrappersOf(c) = {})
         => /\ done[c].deleted = 1
            /\ delegate_[c].callback = "deleted" => done[c].runs = <<>>

\* ------------------------------------------ OperationScheduler: firing gaps

\* The scheduler of SpecSched with the history of firings kept.
InitFire ==
  /\ now = 0
  /\ operations_ \in Tables
  /\ scheduled = <<>>
  /\ halted = ""
  /\ handler = [name |-> "init", op |-> NULL]
  /\ InitPH
  /\ InitRM
  /\ InitSS
  /\ recording = {"fired"}
  /\ NoHistory

SpecFire == InitFire /\ [][NextSched]_vars

\* C18 (as claimed): two consecutive firings of an operation are at least
\* its delay apart, the delay being the one registered for it when the later
\* firing happens.
C18_GapAtLeastDelay ==
  [][handler'.name = "RunAndClearScheduled"
       => \A i \in 1 .. Len(scheduled), b \in BOOLEAN :
            (RunAndClearScheduled(i, b) /\ scheduled[i].op \in DOMAIN fired)
              => now - fired[scheduled[i].op]
                   >= operations_[scheduled[i].op].delay]_vars

\* C18 (amended): two consecutive firings of an operation are at least as
\* far apart as the delay the operation had when the Schedule call that led
\* to the later firing was made, which is the delay its wrapper was posted
\* with; a later ChangeDelayForTest does not move a pending firing.
C18_GapAtLeastScheduledDelay ==
  [][handler'.name = "RunAndClearScheduled"
       => \A i \in 1 .. Len(scheduled), b \in BOOLEAN :
            (RunAndClearScheduled(i, b) /\ scheduled[i].op \in DOMAIN fired)
              => /\ scheduled[i].posted >= fired[scheduled[i].op]
                 /\ now - fired[scheduled[i].op] >= scheduled[i].delay]_vars

\* C18 witness: an operation has just fired again, at a time by which a
\* Schedule call made with its present delay after an earlier firing could
\* not have fired.
C18_Witness ==
  /\ halted = ""
  /\ handler.name = "RunAndClearScheduled"
  /\ handler.again
  /\ fired[handler.op] = now
  /\ now >= 1
  /\ operations_[handler.op].delay > now

\* ------------------------------------------ ProtocolHandler: batched sends

\* The outbound path with the histories kept: a handler whose listener holds
\* no token yet, or the token an earlier exchange assigned.
InitBatch ==
  /\ now = 0
  /\ operations_ = (batching_task_ :> OperationScheduleInfo(batching_delay))
  /\ scheduled = <<>>
  /\ halted = ""
  /\ handler = [name |-> "init", op |-> NULL]
  /\ client_token \in {"", "A"}
  /\ message_id_ = 1
  /\ last_known_server_time_ms_ = 0
  /\ next_message_send_time_ms_ = 0
  /\ pending_registrations_ = <<>>
  /\ acked_invalidations_ = {}
  /\ registration_subtrees_ = {}
  /\ statistics_ = <<>>
  /\ listener_calls = <<>>
  /\ network_ = <<>>
  /\ quiet_log = [last |-> 0, longest |-> 0]
  /\ InitRM
  /\ InitSS
  /\ recording = {"fired", "batched_sent"}
  /\ NoHistory

\* The entry points that fill the batches or send, and the internal
\* scheduler's firings of the batching task.
NextBatch ==
  \/ \E v \in BOOLEAN : SendInitializeMessage(v)
  \/ \E v \in BOOLEAN : SendInfoMessage(v)
  \/ \E ids \in SUBSET ObjectIds, t \in OpTypes : SendRegistrations(ids, t)
  \/ \E inv \in Invalidations : SendInvalidationAck(inv)
  \/ \E st \in Subtrees : SendRegistrationSyncSubtree(st)
  \/ RunBatching
  \/ Tick

SpecBatch == InitBatch /\ [][NextBatch]_vars

\* The step hands a message with batched content to the network.
HandsBatched ==
  /\ message_id_' # message_id_
  /\ network_' # <<>>
  /\ HasBatchedContent(network_'[1])

\* C19 (as claimed): a message with batched content is handed to the
\* network no sooner than batching_delay after the last one, whichever
\* entry point sends it.
C19_BatchedGap ==
  [][(HandsBatched /\ batched_sent >= 0)
        => now - batched_sent >= batching_delay]_vars

\* C19 (amended): two consecutive firings of the batching task are at least
\* batching_delay apart, so any two messages the batching task hands to the
\* network are; a firing is the only step of the task that hands one.
C19_BatchingTaskGap ==
  [][(handler'.name = "RunAndClearScheduled" /\ scheduled' # scheduled)
        => /\ \E i \in 1 .. Len(scheduled), v \in BOOLEAN : BatchingTask(i, v)
           /\ batching_task_ \in DOMAIN fired
                => now - fired[batching_task_] >= batching_delay]_vars

\* C19 witness: the batching task has fired again and handed a message with
\* batched content to the network.
C19_Witness ==
  /\ halted = ""
  /\ handler.name = "RunAndClearScheduled"
  /\ handler.again
  /\ fired[batching_task_] = now
  /\ batched_sent = now
  /\ network_ # <<>>
  /\ HasBatchedContent(network_[1])

\* ------------------------------------------ ProtocolHandler: dispatch order

\* The listener callbacks in the order claimed, each with the sub-message it
\* answers to and the statistic recorded with it.
FixedOrder ==
  <<[callback |-> "HandleTokenChanged", stat |-> "RECEIVED_TOKEN_CONTROL"],
    [callback |-> "HandleInvalidations", stat |-> "RECEIVED_INVALIDATION"],
    [callback |-> "HandleRegistrationStatus",
     stat |-> "RECEIVED_REGISTRATION_STATUS"],
    [callback |-> "HandleRegistrationSyncRequest",
     stat |-> "RECEIVED_REGISTRATION_SYNC_REQUEST"],
    [callback |-> "HandleInfoMessage", stat |-> "RECEIVED_INFO_REQUEST"]>>

Present(m, k) ==
  CASE k = 1 -> m.token_control_message.has
    [] k = 2 -> "INVALIDATION" \in m.subs
    [] k = 3 -> "REGISTRATION_STATUS" \in m.subs
    [] k = 4 -> "REGISTRATION_SYNC_REQUEST" \in m.subs
    [] k = 5 -> "INFO_REQUEST" \in m.subs

\* C20: the callbacks one HandleIncomingMessage call makes are callbacks of
\* the fixed order HandleTokenChanged, HandleInvalidations,
\* HandleRegistrationStatus, HandleRegistrationSyncRequest,
\* HandleInfoMessage, made in that order and each at most once, each only
\* for a sub-message the envelope carries, and each with exactly one record
\* of its received-type statistic.
C20_FixedDispatchOrder ==
  [][(handler'.name = "HandleIncomingMessage" /\ scheduled # <<>>)
        => LET m == PostedMessage(1)
               calls == listener_calls'
               Pos(c) == {k \in 1 .. Len(FixedOrder) :
                            FixedOrder[k].callback = c}
           IN /\ \A j \in 1 .. Len(calls) : Pos(calls[j]) # {}
              /\ \A j, k \in 1 .. Len(calls) :
                    j < k => \A pj \in Pos(calls[j]), pk \in Pos(calls[k]) :
                               pj < pk
              /\ \A j \in 1 .. Len(calls) :
                    \A p \in Pos(calls[j]) :
                       /\ Present(m, p)
                       /\ Count(FixedOrder[p].stat, statistics_') = 1]_vars

\* C20 witness: one call has made all five callbacks.
C20_Witness ==
  /\ handler.name = "HandleIncomingMessage"
  /\ Len(listener_calls) = Len(FixedOrder)
  /\ \A k \in 1 .. Len(FixedOrder) :
        listener_calls[k] = FixedOrder[k].callback

\* --------------------------------------------------- claims C21 - C28

\* The step is one of the entry points that call SendMessageToServer.
IsSendStep == handler'.name \in SendHandlers /\ now' = now

\* The call gets past the quiet-period check and the token check.
PassesSendChecks ==
  /\ ~(next_message_send_time_ms_ > now)
  /\ ~(client_token = "" /\ handler'.name # "SendInitializeMessage")

\* C21: a SendMessageToServer call that passes the quiet-period and token
\* checks advances message_id_ by exactly two, whether the assembled message
\* is valid or not, and a header handed to the network carries the decimal
\* string of the id before the call; a call dropped by either check, and
\* every other step, leaves message_id_ as it is; the ids used are odd and
\* never decrease, so none is used twice.
C21_MessageIdByTwo ==
  /\ [](message_id_ % 2 = 1)
  /\ [][/\ message_id_' >= message_id_
        /\ (IsSendStep /\ PassesSendChecks)
             => /\ message_id_' = message_id_ + 2
                /\ \A k \in 1 .. Len(network_') :
                      network_'[k].header.message_id
                        = StringPrintf_d(message_id_)
        /\ ~(IsSendStep /\ PassesSendChecks)
             => message_id_' = message_id_]_vars

\* C21 witness: the second assembly, with id 3, has failed validation and
\* message_id_ has moved on to 5.
C21_Witness ==
  /\ handler.name \in SendHandlers
  /\ message_id_ = 5
  /\ statistics_ # <<>>
  /\ statistics_[Len(statistics_)] = "ERROR_OUTGOING_MESSAGE_FAILURE"
  /\ network_ = <<>>

\* ------------------------------------------ ProtocolHandler: what is batched

MaxSubmits == 3       \* batching entry point calls between two assemblies
SubmitIds == {"o1", "o2"}

\* The outbound path with the history of the batching calls kept: a handler
\* whose listener holds no token yet, or the token an earlier exchange
\* assigned.
InitSubmit ==
  /\ now = 0
  /\ operations_ = (batching_task_ :> OperationScheduleInfo(batching_delay))
  /\ scheduled = <<>>
  /\ halted = ""
  /\ handler = [name |-> "init", op |-> NULL]
  /\ client_token \in {"", "A"}
  /\ message_id_ = 1
  /\ last_known_server_time_ms_ = 0
  /\ next_message_send_time_ms_ = 0
  /\ pending_registrations_ = <<>>
  /\ acked_invalidations_ = {}
  /\ registration_subtrees_ = {}
  /\ statistics_ = <<>>
  /\ listener_calls = <<>>
  /\ network_ = <<>>
  /\ quiet_log = [last |-> 0, longest |-> 0]
  /\ InitRM
  /\ InitSS
  /\ recording = {"submitted"}
  /\ NoHistory

\* Another batching call keeps the history within its bound.
MaySubmit ==
  \/ submitted.drained
  \/ Len(submitted.registrations) + Len(submitted.acks)
        + Len(submitted.subtrees) < MaxSubmits

NextSubmit ==
  \/ \E ids \in SUBSET SubmitIds, t \in OpTypes :
        MaySubmit /\ SendRegistrations(ids, t)
  \/ \E inv \in Invalidations : MaySubmit /\ SendInvalidationAck(inv)
  \/ \E st \in Subtrees : MaySubmit /\ SendRegistrationSyncSubtree(st)
  \/ \E v \in BOOLEAN : SendInitializeMessage(v)
  \/ RunBatching
  \/ Tick

SpecSubmit == InitSubmit /\ [][NextSubmit]_vars

\* The object ids the SendRegistrations calls of the history name, and the
\* op_type of the last call that names an id.
NamedIds ==
  UNION {submitted.registrations[k].object_ids :
           k \in 1 .. Len(submitted.registrations)}
LastOpType(o) ==
  LET calls == {k \in 1 .. Len(submitted.registrations) :
                  o \in submitted.registrations[k].object_ids}
      last == CHOOSE k \in calls : \A j \in calls : j <= k
  IN submitted.registrations[last].op_type

\* C22: the registration_message of an assembled message has exactly one
\* entry for each object id the SendRegistrations calls since the previous
\* assembly named, with the op_type of the last call that named it, and its
\* acks and subtrees are the invalidations and subtrees handed in since
\* then, each once however often it was handed in.
C22_LatestOpWins ==
  network_ # <<>>
    => LET msg == network_[1]
       IN /\ submitted.drained
          /\ BagToSet(msg.registration_message) =
               {[object_id |-> o, op_type |-> LastOpType(o)] : o \in NamedIds}
          /\ \A x \in BagToSet(msg.registration_message) :
               CopiesIn(x, msg.registration_message) = 1
          /\ BagToSet(msg.invalidation_ack_message) =
               {submitted.acks[k] : k \in 1 .. Len(submitted.acks)}
          /\ \A x \in BagToSet(msg.invalidation_ack_message) :
               CopiesIn(x, msg.invalidation_ack_message) = 1
          /\ BagToSet(msg.registration_sync_message) =
               {submitted.subtrees[k] : k \in 1 .. Len(submitted.subtrees)}
          /\ \A x \in BagToSet(msg.registration_sync_message) :
               CopiesIn(x, msg.registration_sync_message) = 1

\* C22 witness: an id registered and then unregistered goes out as one
\* UNREGISTER entry, next to an entry for another id.
C22_Witness ==
  /\ network_ # <<>>
  /\ Len(submitted.registrations) = 3
  /\ submitted.registrations[1] =
       [object_ids |-> {"o1", "o2"}, op_type |-> "REGISTER"]
  /\ submitted.registrations[2] =
       [object_ids |-> {"o1"}, op_type |-> "UNREGISTER"]
  /\ submitted.registrations[3] =
       [object_ids |-> {"o2"}, op_type |-> "REGISTER"]
  /\ BagToSet(network_[1].registration_message) =
       {[object_id |-> "o1", op_type |-> "UNREGISTER"],
        [object_id |-> "o2", op_type |-> "REGISTER"]}

\* ------------------------------------------ OperationScheduler: ChangeDelay

\* C23: ChangeDelayForTest on a registered operation stores the delay and
\* nothing else: every has_been_scheduled flag, every other delay and the
\* closures the internal scheduler holds, with the times they were posted
\* at and the delays they were posted with, are as before, and no CHECK
\* fails; on an operation that is not registered it fails a CHECK and
\* changes nothing.  A wrapper fires no sooner than the delay it was posted
\* with after it was posted, and a Schedule call posts with the delay
\* stored when it is made.
C23_ChangeDelayStoresOnly ==
  [][/\ (handler'.name = "ChangeDelayForTest" /\ now' = now)
          => LET op == handler'.op
             IN IF op \in DOMAIN operations_
                  THEN /\ halted' = ""
                       /\ DOMAIN operations_' = DOMAIN operations_
                       /\ operations_'[op].delay = handler'.delay
                       /\ \A o \in DOMAIN operations_ :
                             /\ operations_'[o].has_been_scheduled
                                  = operations_[o].has_been_scheduled
                             /\ o # op
                                  => operations_'[o].delay
                                       = operations_[o].delay
                       /\ scheduled' = scheduled
                  ELSE /\ halted' # ""
                       /\ operations_' = operations_
                       /\ scheduled' = scheduled
     /\ (handler'.name = "RunAndClearScheduled" /\ now' = now)
          => \E i \in Wrappers(handler'.op) :
                /\ now >= scheduled[i].posted + scheduled[i].delay
                /\ \A j \in 1 .. Len(scheduled) :
                      j # i => \E k \in 1 .. Len(scheduled') :
                                  scheduled'[k] = scheduled[j]
     /\ (handler'.name = "Schedule" /\ now' = now /\ halted' = ""
           /\ scheduled' # scheduled)
          => scheduled'[Len(scheduled')].delay
               = operations_[handler'.op].delay]_vars

\* C23 witness: the delay of an operation was raised while its wrapper was
\* pending; the wrapper keeps the delay it was posted with and the flag is
\* still set.
C23_Witness ==
  /\ halted = ""
  /\ handler.name = "ChangeDelayForTest"
  /\ operations_[handler.op].has_been_scheduled
  /\ operations_[handler.op].delay = handler.delay
  /\ \E i \in Wrappers(handler.op) :
        scheduled[i].delay < operations_[handler.op].delay


\* ------------------------------------------ ProtocolHandler: deliveries

\* The messages the transport delivers while the handler also sends: an
\* unparseable one, and the valid ones with the header token "A" that
\* assign the token "A" or carry every other sub-message.
ArriveMessages ==
  {m \in CoreMessages :
     \/ m.parse = "unparseable"
     \/ /\ m.parse = "valid" /\ m.major_version = kProtocolMajorVersion
        /\ ~m.config_change_message.has
        /\ m.client_token = "A"
        /\ m.token_control_message.has => m.token_control_message.new_token = "A"}

\* The closures of scheduled that hold a delivery.
Incoming == {i \in 1 .. Len(scheduled) : scheduled[i].kind = "incoming"}

\* Deliveries from the transport on either thread, several of them waiting
\* at a time, the internal scheduler running what it holds, and the entry
\* points that assemble outbound messages.
NextArrive ==
  \/ \E m \in ArriveMessages, thread \in Threads : MessageReceiver(m, thread)
  \/ \E i \in Incoming : RunPosted(i, TRUE)
  \/ SendInitializeMessage(TRUE)
  \/ \E inv \in Invalidations : SendInvalidationAck(inv)
  \/ RunBatching
  \/ Tick

SpecArrive == Init /\ [][NextArrive]_vars

\* The deliveries the internal scheduler holds, oldest first.
Deliveries(tasks) == SelectSeq(tasks, LAMBDA t : t.kind = "incoming")

\* The delivery the internal scheduler runs next: the one posted first.
OldestDelivery == CHOOSE i \in Incoming : \A j \in Incoming : i <= j

\* What an inbound dispatch and an outbound assembly leave alone.
OutboundState == <<message_id_, pending_registrations_, acked_invalidations_,
                   registration_subtrees_>>
InboundState == <<client_token, last_known_server_time_ms_,
                  next_message_send_time_ms_>>

\* C24: a delivery by the transport, on any thread, only posts a zero-delay
\* closure on the internal scheduler and touches no handler state; the
\* thread assertion of HandleIncomingMessage never fails; a message is
\* handled only by running such a closure, one per step and the oldest
\* first; a dispatch assembles no outbound message and an assembly
\* dispatches nothing.
C24_DeliveriesRePosted ==
  /\ [](halted # "Not on internal thread")
  /\ [][now' = now =>
        /\ handler'.name = "MessageReceiver" =>
             /\ \E m \in ArriveMessages :
                  scheduled' = Append(scheduled,
                     [kind |-> "incoming", op |-> m, delay |-> 0,
                      posted |-> now])
             /\ listener_calls' = <<>> /\ statistics_' = <<>>
             /\ network_' = <<>>
             /\ UNCHANGED <<OutboundState, InboundState>>
        /\ (listener_calls' # <<>> \/ InboundState' # InboundState) =>
             handler'.name = "HandleIncomingMessage"
        /\ handler'.name = "HandleIncomingMessage" =>
             /\ Incoming # {}
             /\ scheduled' = RemoveAt(scheduled, OldestDelivery)
             /\ network_' = <<>>
             /\ UNCHANGED OutboundState
        /\ (handler'.name \in SendHandlers /\ now' = now) =>
             /\ listener_calls' = <<>>
             /\ Deliveries(scheduled') = Deliveries(scheduled)
             /\ UNCHANGED InboundState]_vars

\* A delivered message is handled, with calls to the listener, while a later
\* delivery waits on the internal scheduler and acknowledgements wait to be
\* sent.
C24_Witness ==
  /\ handler.name = "HandleIncomingMessage"
  /\ listener_calls # <<>>
  /\ Deliveries(scheduled) # <<>>
  /\ acked_invalidations_ # {}
  /\ halted = ""


\* ------------------------------------- ProtocolHandler: an invalid message

\* What the batching calls since the previous assembly handed in.
SubmittedAcks ==
  {SinceAssembly.acks[k] : k \in 1 .. Len(SinceAssembly.acks)}
SubmittedSubtrees ==
  {SinceAssembly.subtrees[k] : k \in 1 .. Len(SinceAssembly.subtrees)}
SubmittedIds ==
  UNION {SinceAssembly.registrations[k].object_ids :
           k \in 1 .. Len(SinceAssembly.registrations)}

\* The SENT_* types of the batches, each recorded once when its batch had
\* something in it and not otherwise.
BatchTypesRecorded ==
  /\ Count("SENT_INVALIDATION_ACK", statistics_') =
       (IF acked_invalidations_ # {} THEN 1 ELSE 0)
  /\ Count("SENT_REGISTRATION", statistics_') =
       (IF DOMAIN pending_registrations_ # {} THEN 1 ELSE 0)
  /\ Count("SENT_REGISTRATION_SYNC", statistics_') =
       (IF registration_subtrees_ # {} THEN 1 ELSE 0)

\* C25: a send attempt whose assembled message fails validation records
\* OUTGOING_MESSAGE_FAILURE once, hands nothing to the transport, leaves the
\* three batches empty and has recorded their SENT_* types; and a message
\* that does go out carries only what was handed in since the previous
\* assembly, failed or not.
C25_InvalidMessageLosesBatches ==
  [][IsSendStep =>
       /\ Count("ERROR_OUTGOING_MESSAGE_FAILURE", statistics_') > 0 =>
            /\ Count("ERROR_OUTGOING_MESSAGE_FAILURE", statistics_') = 1
            /\ Count("SENT_TOTAL", statistics_') = 0
            /\ network_' = <<>>
            /\ acked_invalidations_' = {}
            /\ DOMAIN pending_registrations_' = {}
            /\ registration_subtrees_' = {}
            /\ BatchTypesRecorded
       /\ network_' # <<>> =>
            /\ BagToSet(network_'[1].invalidation_ack_message)
                 \subseteq SubmittedAcks
            /\ BagToSet(network_'[1].registration_sync_message)
                 \subseteq SubmittedSubtrees
            /\ \A r \in BagToSet(network_'[1].registration_message) :
                 r.object_id \in SubmittedIds]_vars

\* C25 witness: an attempt with all three batches filled has failed
\* validation, and the batches are empty.
C25_Witness ==
  /\ handler.name \in SendHandlers
  /\ Count("ERROR_OUTGOING_MESSAGE_FAILURE", statistics_) = 1
  /\ Count("SENT_INVALIDATION_ACK", statistics_) = 1
  /\ Count("SENT_REGISTRATION", statistics_) = 1
  /\ Count("SENT_REGISTRATION_SYNC", statistics_) = 1
  /\ submitted.drained
  /\ submitted.acks # <<>>
  /\ acked_invalidations_ = {}


\* ------------------------- RegistrationManager: what a status report removes

\* C26: HandleRegistrationStatus adds no object to the desired set, and
\* every entry it reports false names an object that is not in the desired
\* set when the call returns, also when several entries name one object.
C26_StatusOnlyRemoves ==
  [][handler'.name = "HandleRegistrationStatus"
       => LET sts == handler'.registration_statuses
              v == handler'.success_status
          IN /\ desired_registrations_' \subseteq desired_registrations_
             /\ \A k \in 1 .. Len(sts) :
                   ~success_status'[Len(v) + k]
                     => sts[k].object_id \notin desired_registrations_'
    ]_vars

\* C26 witness: a batch confirms the registration of x and then reports a
\* failure for x; x leaves the desired set and y stays in it.
C26_Witness ==
  /\ handler.name = "HandleRegistrationStatus"
  /\ Len(handler.registration_statuses) = 2
  /\ handler.registration_statuses[1] =
       [object_id |-> "x", op_type |-> "REGISTER", code |-> "SUCCESS"]
  /\ handler.registration_statuses[2].object_id = "x"
  /\ handler.registration_statuses[2].code # "SUCCESS"
  /\ Len(success_status) >= 2
  /\ success_status[Len(success_status) - 1]
  /\ ~success_status[Len(success_status)]
  /\ desired_registrations_ = {"y"}


\* --------------------------- OperationScheduler: Schedule during the run

\* C27: when a wrapper of Op fires, a Schedule(Op) that Op's closure makes
\* while it runs posts nothing: the step takes the fired wrapper off the
\* scheduler and leaves no wrapper of Op behind, with has_been_scheduled
\* cleared; a Schedule(Op) made once the wrapper has finished posts one new
\* wrapper, and one made while a wrapper is pending posts none.
C27_ScheduleDuringRunIsNoOp ==
  [][(now' = now /\ halted' = "") =>
       /\ handler'.name = "RunAndClearScheduled" =>
            /\ \E i \in Wrappers(handler'.op) :
                  scheduled' = RemoveAt(scheduled, i)
            /\ \A j \in 1 .. Len(scheduled') :
                  scheduled'[j].op # handler'.op
            /\ ~operations_'[handler'.op].has_been_scheduled
       /\ handler'.name = "Schedule" =>
            IF operations_[handler'.op].has_been_scheduled
              THEN scheduled' = scheduled
              ELSE /\ Len(scheduled') = Len(scheduled) + 1
                   /\ SubSeq(scheduled', 1, Len(scheduled)) = scheduled
                   /\ scheduled'[Len(scheduled')].kind = "wrapper"
                   /\ scheduled'[Len(scheduled')].op = handler'.op
                   /\ operations_'[handler'.op].has_been_scheduled]_vars

\* C27 witness: an operation's closure has called Schedule for itself while
\* it ran; no wrapper of it is pending and its flag is clear.
C27_Witness ==
  /\ handler.name = "RunAndClearScheduled"
  /\ handler.reentered
  /\ Wrappers(handler.op) = {}
  /\ ~operations_[handler.op].has_been_scheduled
  /\ halted = ""


\* ------------------------------- ProtocolHandler: what a dropped message
\* ------------------------------- leaves alone

\* The envelope is dropped before the token check, or by it.
IsDropped(m) ==
  \/ m.parse # "valid"
  \/ VersionMismatch(m)
  \/ client_token # "" /\ m.client_token # client_token

\* C28: handling a message that is unparseable, invalid, of another major
\* version or of a token other than a non-empty client token, or that
\* contains a ConfigChangeMessage, leaves last_known_server_time_ms_, the
\* three batches and message_id_ as they were; next_message_send_time_ms_
\* changes only for a valid config change of the right version that has a
\* next_message_delay_ms.
C28_DroppedLeavesState ==
  [][(handler'.name = "HandleIncomingMessage" /\ now' = now)
       => LET m == handler'.message
          IN (IsDropped(m) \/ m.config_change_message.has) =>
               /\ UNCHANGED <<last_known_server_time_ms_,
                              pending_registrations_, acked_invalidations_,
                              registration_subtrees_, message_id_>>
               /\ next_message_send_time_ms_' # next_message_send_time_ms_
                    => /\ m.parse = "valid" /\ ~VersionMismatch(m)
                       /\ m.config_change_message.has
                       /\ m.config_change_message.has_next_message_delay_ms
    ]_vars

\* C28 witness: a message of another token has been dropped while
\* acknowledgements wait to be sent, messages have been sent and a server
\* time is known.
C28_Witness ==
  /\ handler.name = "HandleIncomingMessage"
  /\ handler.message.parse = "valid"
  /\ ~VersionMismatch(handler.message)
  /\ ~handler.message.config_change_message.has
  /\ client_token # ""
  /\ handler.message.client_token # client_token
  /\ Count("ERROR_TOKEN_MISMATCH", statistics_) = 1
  /\ acked_invalidations_ # {}
  /\ message_id_ > 1
  /\ last_known_server_time_ms_ > 0

====
